---------------------------- MODULE Spec2Model ----------------------------
(***************************************************************************)
(* Model of gedit-grammalecte's core:                                      *)
(*   - plugin/avltree.py    : _BNode / AvlTree (insertion, rotations,      *)
(*                            lazy heights, search, iteration)              *)
(*   - plugin/errorstore.py : GrammalecteErrorStore (AvlTree of errors)    *)
(*   - plugin/analyzer.py   : GrammalecteAnalyzer / _SingleAnalyzer        *)
(*                            (queue, _free_room, worker threads)           *)
(***************************************************************************)
EXTENDS Integers, Sequences, FiniteSets, TLC

VARIABLES
    tree,       \* the AvlTree object (nodes kept in an arena, 0 is None)
    inserted,   \* history: the elements given to the constructor / add, in order
    query,      \* Optional: the data of the last search ({} before any)
    found,      \* Optional: the result of the last search ({} is None)
    free_room,  \* GrammalecteAnalyzer._free_room
    queue,      \* GrammalecteAnalyzer._queue (queue.Queue), a sequence of admissions
    capacity,   \* the value read from the configuration by the constructor
    pc,         \* per thread: the statement it is about to execute
    tmp,        \* per thread: the value of _free_room it loaded (+=, -=)
    requester,  \* per thread: its local variable / field `requester` (an admission)
    outcome,    \* per worker: what __call_grammalecte did
    admitted,   \* number of add_request calls made so far
    analysis,   \* per worker, history: what its __call_grammalecte did
    log,        \* history: the notifications emitted, in order
    cur_buffer, \* Optional: GrammalecteAutoCorrector.__cur_buffer ({} is None)
    handled,    \* history: the last call of on_analyze_finished and how it ended
    chain,      \* the DictConfig objects: chain[i + 1] is the parent of chain[i]
    call,       \* history: the last call made on a DictConfig and its result
    ticker      \* GrammalecteAutoCorrector: __requested, __tick_count, its signals

treeVars  == <<tree, inserted, query, found>>
schedVars == <<free_room, queue, capacity, pc, tmp, requester, outcome, admitted,
               analysis, log>>
appVars   == <<cur_buffer, handled, chain, call, ticker>>
vars      == <<tree, inserted, query, found, free_room, queue, capacity, pc, tmp,
               requester, outcome, admitted, analysis, log, cur_buffer, handled,
               chain, call, ticker>>

---------------------------------------------------------------------------
(* Bounds of the model *)

\* number of elements inserted in a tree
MaxNodes == 6
\* integer elements are drawn from 1..MaxVal
MaxVal == 4
\* number of errors inserted in an error store
MaxErrors == 3
\* error positions: lines 0..MaxLine, offsets 0..MaxOffset
MaxLine == 2
MaxOffset == 2
\* the configured analyze-parallel-count is drawn from 1..MaxCapacity
MaxCapacity == 2
\* number of add_request calls
MaxRequests == 3

Values == 1..MaxVal

Max(a, b) == IF a >= b THEN a ELSE b

---------------------------------------------------------------------------
(* plugin/avltree.py : _BNode *)

\* A tree without node. comparator names the function given to AvlTree.
EmptyTree(comparator) ==
    [root |-> 0, comparator |-> comparator, element |-> <<>>,
     parent |-> <<>>, left |-> <<>>, right |-> <<>>, height |-> <<>>]

\* _BNode.__init__: the new node is the last of the arena
BNode_init(t, element) ==
    [t EXCEPT !.element = Append(@, element),
              !.parent  = Append(@, 0),
              !.left    = Append(@, 0),
              !.right   = Append(@, 0),
              !.height  = Append(@, -1)]

\* mutant of __compare: the offsets are compared first
Store_compare_offset_first(lerror, rerror) ==
    LET diff == lerror.start[2] - rerror.start[2]
    IN  IF diff # 0 THEN diff ELSE lerror.start[1] - rerror.start[1]

\* ErrorStore.__compare
Store_compare(lerror, rerror) ==
    LET diff == lerror.start[1] - rerror.start[1]
    IN  IF diff # 0 THEN diff ELSE lerror.start[2] - rerror.start[2]

\* the comparators given to AvlTree.__init__: test_avltree's compare
\* (left - right) and the error store's __compare
Comparator(name, l, r) ==
    IF name = "diff" THEN l - r ELSE Store_compare(l, r)

\* mutant of __invalidate_height: the parents keep their cached heights
invalidate_height_local(t, self) == [t EXCEPT !.height[self] = -1]

\* _BNode.__invalidate_height
RECURSIVE invalidate_height(_, _)
invalidate_height(t, self) ==
    LET t1 == [t EXCEPT !.height[self] = -1]
    IN  IF t.parent[self] # 0 THEN invalidate_height(t1, t.parent[self]) ELSE t1

\* _BNode.height (property): the tree after the evaluation, in which
\* height[self] holds the returned value
RECURSIVE height(_, _)
height(t, self) ==
    IF t.height[self] >= 0 THEN t
    ELSE LET t1 == IF t.left[self] = 0 THEN t ELSE height(t, t.left[self])
             leftHeight == IF t.left[self] = 0 THEN -1 ELSE t1.height[t.left[self]]
             t2 == IF t.right[self] = 0 THEN t1 ELSE height(t1, t.right[self])
             rightHeight == IF t.right[self] = 0 THEN -1 ELSE t2.height[t.right[self]]
         IN  [t2 EXCEPT !.height[self] = Max(leftHeight, rightHeight) + 1]

\* _BNode.__get_height: the tree after the call ...
get_height(t, node) == IF node = 0 THEN t ELSE height(t, node)

\* ... and the value it returns
get_height_value(t, node) == IF node = 0 THEN -1 ELSE get_height(t, node).height[node]

\* mutant of _BNode.add: the test of the comparison is inverted
RECURSIVE BNode_add_inverted(_, _, _)
BNode_add_inverted(t, self, node) ==
    LET result == Comparator(t.comparator, t.element[node], t.element[self])
    IN  IF result > 0
        THEN IF t.left[self] = 0
             THEN invalidate_height(
                      [t EXCEPT !.left[self] = node, !.parent[node] = self], self)
             ELSE BNode_add_inverted(t, t.left[self], node)
        ELSE IF t.right[self] = 0
             THEN invalidate_height(
                      [t EXCEPT !.right[self] = node, !.parent[node] = self], self)
             ELSE BNode_add_inverted(t, t.right[self], node)

\* mutant of _BNode.add: an element that compares equal goes to the left
RECURSIVE BNode_add_ties_left(_, _, _)
BNode_add_ties_left(t, self, node) ==
    LET result == Comparator(t.comparator, t.element[node], t.element[self])
    IN  IF result <= 0
        THEN IF t.left[self] = 0
             THEN invalidate_height(
                      [t EXCEPT !.left[self] = node, !.parent[node] = self], self)
             ELSE BNode_add_ties_left(t, t.left[self], node)
        ELSE IF t.right[self] = 0
             THEN invalidate_height(
                      [t EXCEPT !.right[self] = node, !.parent[node] = self], self)
             ELSE BNode_add_ties_left(t, t.right[self], node)

\* _BNode.add
RECURSIVE BNode_add(_, _, _)
BNode_add(t, self, node) ==
    LET result == Comparator(t.comparator, t.element[node], t.element[self])
    IN  IF result < 0
        THEN IF t.left[self] = 0
             THEN invalidate_height(
                      [t EXCEPT !.left[self] = node, !.parent[node] = self], self)
             ELSE BNode_add(t, t.left[self], node)
        ELSE IF t.right[self] = 0
             THEN invalidate_height(
                      [t EXCEPT !.right[self] = node, !.parent[node] = self], self)
             ELSE BNode_add(t, t.right[self], node)

\* the part shared by both rotations: rotated takes the place of self under
\* self's parent
Reparent(t, self, rotated) ==
    LET p  == t.parent[self]
        t1 == [t EXCEPT !.parent[rotated] = p]
    IN  IF p = 0 THEN t1
        ELSE IF t1.left[p] = self THEN [t1 EXCEPT !.left[p] = rotated]
        ELSE IF t1.right[p] = self THEN [t1 EXCEPT !.right[p] = rotated]
        ELSE t1

\* mutant of __left_rotate: self.__right is emptied, the left subtree of
\* rotated is not moved under self
left_rotate_drop(t, self) ==
    LET rotated == t.right[self]
        t1 == Reparent(t, self, rotated)
        t2 == [t1 EXCEPT !.right[self] = 0]
        t4 == [t2 EXCEPT !.left[rotated] = self, !.parent[self] = rotated]
    IN  invalidate_height(t4, self)

\* mutant of __left_rotate: the parent of the subtree moved under self is
\* not updated
left_rotate_stale(t, self) ==
    LET rotated == t.right[self]
        t1 == Reparent(t, self, rotated)
        t2 == [t1 EXCEPT !.right[self] = t1.left[rotated]]
        t4 == [t2 EXCEPT !.left[rotated] = self, !.parent[self] = rotated]
    IN  invalidate_height(t4, self)

\* _BNode.__left_rotate
left_rotate(t, self) ==
    LET rotated == t.right[self]
        t1 == Reparent(t, self, rotated)
        t2 == [t1 EXCEPT !.right[self] = t1.left[rotated]]
        t3 == IF t2.right[self] # 0
              THEN [t2 EXCEPT !.parent[t2.right[self]] = self] ELSE t2
        t4 == [t3 EXCEPT !.left[rotated] = self, !.parent[self] = rotated]
    IN  invalidate_height(t4, self)

\* _BNode.__right_rotate
right_rotate(t, self) ==
    LET rotated == t.left[self]
        t1 == Reparent(t, self, rotated)
        t2 == [t1 EXCEPT !.left[self] = t1.right[rotated]]
        t3 == IF t2.left[self] # 0
              THEN [t2 EXCEPT !.parent[t2.left[self]] = self] ELSE t2
        t4 == [t3 EXCEPT !.right[rotated] = self, !.parent[self] = rotated]
    IN  invalidate_height(t4, self)

\* mutant of the rotations of balance: a difference of 2 is tolerated
Rebalance_late(t, self, leftHeight, rightHeight) ==
    IF leftHeight - rightHeight > 2 THEN right_rotate(t, self)
    ELSE IF rightHeight - leftHeight > 2 THEN left_rotate(t, self)
    ELSE t

\* the rotations balance chooses at self, the heights of its children being
\* leftHeight and rightHeight
Rebalance(t, self, leftHeight, rightHeight) ==
    IF leftHeight - rightHeight > 1
    THEN LET l  == t.left[self]
             t1 == get_height(t, t.left[l])
             t2 == get_height(t1, t.right[l])
         IN  IF get_height_value(t2, t.left[l]) >= get_height_value(t2, t.right[l])
             THEN right_rotate(t2, self)
             ELSE right_rotate(left_rotate(t2, l), self)
    ELSE IF rightHeight - leftHeight > 1
    THEN LET r  == t.right[self]
             t1 == get_height(t, t.right[r])
             t2 == get_height(t1, t.left[r])
         IN  IF get_height_value(t2, t.right[r]) >= get_height_value(t2, t.left[r])
             THEN left_rotate(t2, self)
             ELSE left_rotate(right_rotate(t2, r), self)
    ELSE t

\* _BNode.balance: the tree after the call and the node it returns
RECURSIVE balance(_, _)
balance(t, self) ==
    LET t1 == get_height(t, t.left[self])
        t2 == get_height(t1, t.right[self])
        t3 == Rebalance(t2, self, get_height_value(t2, t.left[self]),
                                  get_height_value(t2, t.right[self]))
    IN  IF t3.parent[self] # 0
        THEN balance(t3, t3.parent[self])
        ELSE [tree |-> t3, root |-> self]

\* mutant of _BNode.__iter__: the element of the node is yielded before
\* those of its left subtree
RECURSIVE BNode_iter_preorder(_, _)
BNode_iter_preorder(t, self) ==
    <<self>> \o
    (IF t.left[self] # 0 THEN BNode_iter_preorder(t, t.left[self]) ELSE <<>>)
    \o
    (IF t.right[self] # 0 THEN BNode_iter_preorder(t, t.right[self]) ELSE <<>>)

\* _BNode.__iter__, as the sequence of the nodes visited
RECURSIVE BNode_iter(_, _)
BNode_iter(t, self) ==
    (IF t.left[self] # 0 THEN BNode_iter(t, t.left[self]) ELSE <<>>)
    \o <<self>> \o
    (IF t.right[self] # 0 THEN BNode_iter(t, t.right[self]) ELSE <<>>)

\* mutant of _BNode.__len__: the right subtree is not counted
RECURSIVE BNode_len_left(_, _)
BNode_len_left(t, self) ==
    1 + (IF t.left[self] # 0 THEN BNode_len_left(t, t.left[self]) ELSE 0)

\* _BNode.__len__
RECURSIVE BNode_len(_, _)
BNode_len(t, self) ==
    1 + (IF t.left[self] # 0 THEN BNode_len(t, t.left[self]) ELSE 0)
      + (IF t.right[self] # 0 THEN BNode_len(t, t.right[self]) ELSE 0)

---------------------------------------------------------------------------
(* plugin/avltree.py : AvlTree *)

\* AvlTree.__init__: elt is an Optional ({} is None)
AvlTree_init(comparator, elt) ==
    IF elt = {} THEN EmptyTree(comparator)
    ELSE [BNode_init(EmptyTree(comparator), CHOOSE e \in elt : TRUE) EXCEPT !.root = 1]

\* mutant of AvlTree.add: the tree is not balanced after the addition
AvlTree_add_unbalanced(t, element) ==
    LET t1   == BNode_init(t, element)
        node == Len(t1.element)
    IN  IF t.root = 0
        THEN [t1 EXCEPT !.root = node]
        ELSE BNode_add(t1, t1.root, node)

\* AvlTree.add
AvlTree_add(t, element) ==
    LET t1   == BNode_init(t, element)
        node == Len(t1.element)
    IN  IF t.root = 0
        THEN [t1 EXCEPT !.root = node]
        ELSE LET b == balance(BNode_add(t1, t1.root, node), node)
             IN  [b.tree EXCEPT !.root = b.root]

\* AvlTree.__iter__: the elements, in the order of the nodes visited
AvlTree_nodes(t) == IF t.root = 0 THEN <<>> ELSE BNode_iter(t, t.root)
AvlTree_iter(t) ==
    LET nodes == AvlTree_nodes(t) IN [i \in 1..Len(nodes) |-> t.element[nodes[i]]]

\* AvlTree.__len__
AvlTree_len(t) == IF t.root = 0 THEN 0 ELSE BNode_len(t, t.root)

\* AvlTree.height (property): the value returned
AvlTree_height(t) == get_height_value(t, t.root)


\* _BNode.search. comparator(e) is the function given by the caller, here
\* the operator SearchComparator applied to the data of the search
RECURSIVE BNode_search(_, _, _)

---------------------------------------------------------------------------
(* plugin/errorstore.py : GrammalecteErrorStore *)

\* mutant of __searchComp: any error starting on the line of the position matches
Store_searchComp_nearest(error, position) ==
    LET sline == error.start[1]   soffset == error.start[2]
        eline == error.end[1]     eoffset == error.end[2]
        pline == position[1]      poffset == position[2]
    IN  IF \/ (sline < pline /\ pline < eline)
           \/ (sline # eline /\ sline = pline /\ soffset <= poffset)
           \/ (sline # eline /\ pline = eline /\ poffset <= eoffset)
           \/ (sline = eline /\ sline = pline)
        THEN 0
        ELSE LET diff == sline - pline
             IN  IF diff # 0 THEN diff ELSE soffset - poffset

\* mutant of __searchComp: the end offset of a single-line error is excluded
Store_searchComp_exclusive(error, position) ==
    LET sline == error.start[1]   soffset == error.start[2]
        eline == error.end[1]     eoffset == error.end[2]
        pline == position[1]      poffset == position[2]
    IN  IF \/ (sline < pline /\ pline < eline)
           \/ (sline # eline /\ sline = pline /\ soffset <= poffset)
           \/ (sline # eline /\ pline = eline /\ poffset <= eoffset)
           \/ (sline = eline /\ sline = pline /\ soffset <= poffset /\ poffset < eoffset)
        THEN 0
        ELSE LET diff == sline - pline
             IN  IF diff # 0 THEN diff ELSE soffset - poffset

\* mutant of __searchComp: the lines strictly inside the error are not tested
Store_searchComp_borders(error, position) ==
    LET sline == error.start[1]   soffset == error.start[2]
        eline == error.end[1]     eoffset == error.end[2]
        pline == position[1]      poffset == position[2]
    IN  IF \/ (sline # eline /\ sline = pline /\ soffset <= poffset)
           \/ (sline # eline /\ pline = eline /\ poffset <= eoffset)
           \/ (sline = eline /\ sline = pline /\ soffset <= poffset /\ poffset <= eoffset)
        THEN 0
        ELSE LET diff == sline - pline
             IN  IF diff # 0 THEN diff ELSE soffset - poffset

\* ErrorStore.__searchComp
Store_searchComp(error, position) ==
    LET sline == error.start[1]   soffset == error.start[2]
        eline == error.end[1]     eoffset == error.end[2]
        pline == position[1]      poffset == position[2]
    IN  IF \/ (sline < pline /\ pline < eline)
           \/ (sline # eline /\ sline = pline /\ soffset <= poffset)
           \/ (sline # eline /\ pline = eline /\ poffset <= eoffset)
           \/ (sline = eline /\ sline = pline /\ soffset <= poffset /\ poffset <= eoffset)
        THEN 0
        ELSE LET diff == sline - pline
             IN  IF diff # 0 THEN diff ELSE soffset - poffset

\* The one-parameter comparators given to _BNode.search:
\*   AvlTree.search(element)   : lambda e: self.__comparator(e, data)
\*   ErrorStore.search(tuple)  : lambda e: self.__searchComp(e, data)
SearchComparator(t, data, e) ==
    IF data.kind = "position" THEN Store_searchComp(e, data.value)
    ELSE Comparator(t.comparator, e, data.value)

\* mutant of _BNode.search: an element too small sends the search to the left
RECURSIVE BNode_search_swapped(_, _, _)
BNode_search_swapped(t, self, data) ==
    LET result == SearchComparator(t, data, t.element[self])
    IN  IF result = 0 THEN self
        ELSE IF result > 0 /\ t.right[self] # 0
             THEN BNode_search_swapped(t, t.right[self], data)
        ELSE IF result < 0 /\ t.left[self] # 0
             THEN BNode_search_swapped(t, t.left[self], data)
        ELSE 0

BNode_search(t, self, data) ==
    LET result == SearchComparator(t, data, t.element[self])
    IN  IF result = 0 THEN self
        ELSE IF result < 0 /\ t.right[self] # 0 THEN BNode_search(t, t.right[self], data)
        ELSE IF result > 0 /\ t.left[self] # 0 THEN BNode_search(t, t.left[self], data)
        ELSE 0

\* mutant of _BNode.search: when the child on the side of the result is
\* absent, the search goes on in the other child
RECURSIVE BNode_search_trace_other(_, _, _)
BNode_search_trace_other(t, self, data) ==
    LET result == SearchComparator(t, data, t.element[self])
        next == IF result < 0
                THEN (IF t.right[self] # 0 THEN t.right[self] ELSE t.left[self])
                ELSE (IF t.left[self] # 0 THEN t.left[self] ELSE t.right[self])
    IN  IF result = 0 THEN [node |-> self, examined |-> <<self>>]
        ELSE IF next # 0
        THEN LET r == BNode_search_trace_other(t, next, data)
             IN  [node |-> r.node, examined |-> <<self>> \o r.examined]
        ELSE [node |-> 0, examined |-> <<self>>]

\* _BNode.search, with the nodes whose element was given to the comparator,
\* in the order of the calls
RECURSIVE BNode_search_trace(_, _, _)
BNode_search_trace(t, self, data) ==
    LET result == SearchComparator(t, data, t.element[self])
    IN  IF result = 0 THEN [node |-> self, examined |-> <<self>>]
        ELSE IF result < 0 /\ t.right[self] # 0
        THEN LET r == BNode_search_trace(t, t.right[self], data)
             IN  [node |-> r.node, examined |-> <<self>> \o r.examined]
        ELSE IF result > 0 /\ t.left[self] # 0
        THEN LET r == BNode_search_trace(t, t.left[self], data)
             IN  [node |-> r.node, examined |-> <<self>> \o r.examined]
        ELSE [node |-> 0, examined |-> <<self>>]

\* AvlTree.search: an Optional ({} is None)
AvlTree_search(t, data) ==
    LET result == IF t.root = 0 THEN 0 ELSE BNode_search(t, t.root, data)
    IN  IF result = 0 THEN {} ELSE {t.element[result]}

\* ErrorStore.search: a tuple is a position, anything else goes to AvlTree.search
Store_search(t, data) == AvlTree_search(t, data)

---------------------------------------------------------------------------
(* plugin/analyzer.py : the state of a GrammalecteAnalyzer just built *)

Main == 0
Threads == 0..MaxRequests

\* a _SingleAnalyzer whose __call_grammalecte has not been called
NoAnalysis == [requester |-> 0, config |-> {}, fetched |-> FALSE, raised |-> "none"]

\* GrammalecteAnalyzer.__init__, the configuration holding count
Analyzer_init(count) ==
    /\ capacity = count
    /\ free_room = count
    /\ queue = <<>>
    /\ pc = [t \in Threads |-> IF t = Main THEN "idle" ELSE "unborn"]
    /\ tmp = [t \in Threads |-> 0]
    /\ requester = [t \in Threads |-> 0]
    /\ outcome = [t \in Threads |-> "none"]
    /\ admitted = 0
    /\ analysis = [t \in Threads |-> NoAnalysis]
    /\ log = <<>>

\* analyze-parallel-count of GrammalecteConfig's default configuration
DefaultParallelCount == 1

\* no call of on_analyze_finished was made
NoHandling == [requester |-> 0, result |-> "none", raised |-> "none"]

\* GrammalecteAutoCorrector.__TICK_OFF, -sys.maxsize - 1 (sys.maxsize taken
\* as that of a 32-bit build)
TICK_OFF == -2147483647 - 1

\* GrammalecteConfig.__DEFAULT_CONFIG[ANALYZE_WAIT_TICKS]
DefaultWaitTicks == 12

\* mutant of __ask_request: the countdown restarts even when a request of
\* the auto-corrector is queued
ask_request_always(tk) == [tk EXCEPT !.tick_count = tk.wait_ticks]

\* GrammalecteAutoCorrector.__ask_request; wait_ticks is what
\* get_config().get_value(ANALYZE_WAIT_TICKS) returns
ask_request(tk) ==
    IF ~tk.requested THEN [tk EXCEPT !.tick_count = tk.wait_ticks] ELSE tk

\* GrammalecteAutoCorrector.__init__ with a configuration whose
\* ANALYZE_WAIT_TICKS is wait: __requested, __tick_count (1, then
\* __ask_request), the handlers connected and the timer of __add_request
\* installed. mine, goal and quiet are history: the admissions made by this
\* auto-corrector, the value at which the countdown was last restarted and
\* the ticks counted since, up to goal
AutoCorrector_init(wait) ==
    ask_request([requested |-> FALSE, tick_count |-> 1, connected |-> TRUE,
                 timer |-> TRUE, wait_ticks |-> wait, mine |-> {},
                 goal |-> wait, quiet |-> 0])

\* GrammalecteAutoCorrector.__init__: no buffer is being analyzed
NoCorrector ==
    /\ cur_buffer = {}
    /\ handled = NoHandling
    /\ ticker = AutoCorrector_init(DefaultWaitTicks)

\* no call was made on a DictConfig
NoCall == [name |-> "none", self |-> 0, path |-> <<>>, value |-> {}, level |-> 0,
           result |-> {}, count |-> 0, gets |-> 0]

\* no DictConfig was built
NoChain ==
    /\ chain = <<>>
    /\ call = NoCall

---------------------------------------------------------------------------
(* Specification of the container: a tree of integers compared by difference,
   built empty or with a first element (test_avltree.py) *)

InitTree ==
    /\ \E elt \in {{}} \cup {{e} : e \in Values} :
          /\ tree = AvlTree_init("diff", elt)
          /\ inserted = IF elt = {} THEN <<>> ELSE <<CHOOSE e \in elt : TRUE>>
    /\ query = {}
    /\ found = {}
    /\ Analyzer_init(DefaultParallelCount)
    /\ NoCorrector
    /\ NoChain

\* tree.add(e)
TreeAdd ==
    /\ Len(inserted) < MaxNodes
    /\ \E e \in Values :
          /\ tree' = AvlTree_add(tree, e)
          /\ inserted' = Append(inserted, e)
    /\ query' = {}
    /\ found' = {}
    /\ UNCHANGED schedVars
    /\ UNCHANGED appVars

\* tree.search(v), v an element (stored or not)
TreeSearch ==
    /\ \E v \in 0..(MaxVal + 1) :
          /\ query' = {[kind |-> "element", value |-> v]}
          /\ found' = AvlTree_search(tree, [kind |-> "element", value |-> v])
    /\ UNCHANGED <<tree, inserted>>
    /\ UNCHANGED schedVars
    /\ UNCHANGED appVars

NextTree == TreeAdd \/ TreeSearch

SpecTree == InitTree /\ [][NextTree]_vars

---------------------------------------------------------------------------
(* Properties of the container *)

Nodes(t) == 1..Len(t.element)

\* the height of the subtree of a node, from the links alone (0 is None)
RECURSIVE SubtreeHeight(_, _)
SubtreeHeight(t, n) ==
    IF n = 0 THEN -1
    ELSE Max(SubtreeHeight(t, t.left[n]), SubtreeHeight(t, t.right[n])) + 1

\* number of occurrences of x in the sequence s
Count(s, x) == Cardinality({i \in 1..Len(s) : s[i] = x})

\* C1: after every add (for any sequence of insertions, duplicates included,
\* from an empty or a seeded tree) every node has subtrees whose heights
\* differ by at most 1, an absent child having height -1.
C1_Balanced ==
    \A n \in Nodes(tree) :
        LET d == SubtreeHeight(tree, tree.left[n]) - SubtreeHeight(tree, tree.right[n])
        IN  d \in {-1, 0, 1}

\* a full tree with equal elements, built by insertions that moved the root
C1_Witness ==
    /\ Len(inserted) = MaxNodes
    /\ tree.root # 1
    /\ \E i, j \in 1..Len(inserted) : i # j /\ inserted[i] = inserted[j]
    /\ \E n \in Nodes(tree) : tree.parent[n] # 0 /\ tree.left[n] # 0 /\ tree.right[n] # 0

\* C2: iteration yields exactly the inserted elements, each as many times
\* as it was inserted, in non-decreasing comparator order.
C2_IterSorted ==
    LET it == AvlTree_iter(tree)
    IN  /\ Len(it) = Len(inserted)
        /\ \A v \in Values : Count(it, v) = Count(inserted, v)
        /\ \A i \in 1..Len(it) : it[i] \in Values
        /\ \A i, j \in 1..Len(it) :
              i < j => Comparator(tree.comparator, it[i], it[j]) <= 0

\* a full tree holding an element three times, inserted out of order
C2_Witness ==
    /\ Len(inserted) = MaxNodes
    /\ \E v \in Values : Count(inserted, v) >= 3
    /\ \E i \in 1..(Len(inserted) - 1) : inserted[i] > inserted[i + 1]
    /\ \E i \in 1..(Len(inserted) - 1) : inserted[i] < inserted[i + 1]


\* C14: the comparator being a total preorder, after any sequence of
\* insertions search(value) returns a stored element comparing equal to value
\* whenever one is stored, and None otherwise (on an empty tree too).
C14_SearchValue ==
    \A q \in query :
        q.kind = "element" =>
            LET equal == {i \in DOMAIN inserted :
                             Comparator(tree.comparator, inserted[i], q.value) = 0}
            IN  /\ equal # {} =>
                      /\ found # {}
                      /\ \A f \in found :
                            /\ \E i \in equal : inserted[i] = f
                            /\ Comparator(tree.comparator, f, q.value) = 0
                /\ equal = {} => found = {}

\* a full tree whose root moved, holding the value searched twice, one of
\* them two levels below the root
C14_Witness ==
    /\ Len(inserted) = MaxNodes
    /\ tree.root # 1
    /\ found # {}
    /\ \E q \in query : \E n \in Nodes(tree) :
          /\ q.kind = "element"
          /\ Count(inserted, q.value) = 2
          /\ tree.element[n] = q.value
          /\ tree.parent[n] # 0 /\ tree.parent[tree.parent[n]] # 0

\* C15: len(tree) is the number of elements inserted so far, the element
\* given to the constructor counting as one; an empty tree has length 0 and
\* height -1.
C15_LenCountsInsertions ==
    /\ AvlTree_len(tree) = Len(inserted)
    /\ Len(inserted) = 0 => (AvlTree_len(tree) = 0 /\ AvlTree_height(tree) = -1)

\* a full tree in which a node has a right subtree of two elements or more
C15_Witness ==
    /\ Len(inserted) = MaxNodes
    /\ AvlTree_len(tree) = MaxNodes
    /\ \E n \in Nodes(tree) : tree.right[n] # 0 /\ BNode_len(tree, tree.right[n]) >= 2

\* the node without parent above n
RECURSIVE TopOf(_, _)
TopOf(t, n) == IF t.parent[n] = 0 THEN n ELSE TopOf(t, t.parent[n])

\* the in-order sequence of elements of the whole tree n belongs to
TopIter(t, n) ==
    LET nodes == BNode_iter(t, TopOf(t, n))
    IN  [i \in 1..Len(nodes) |-> t.element[nodes[i]]]

\* balance started at self (as AvlTree.add does after _BNode.add): the
\* rotations done at each node on the way up leave the in-order sequence of
\* the whole tree as it was
RECURSIVE RotationsKeepOrder(_, _)
RotationsKeepOrder(t, self) ==
    LET t1 == get_height(t, t.left[self])
        t2 == get_height(t1, t.right[self])
        t3 == Rebalance(t2, self, get_height_value(t2, t.left[self]),
                                  get_height_value(t2, t.right[self]))
    IN  /\ TopIter(t3, self) = TopIter(t, self)
        /\ t3.parent[self] # 0 => RotationsKeepOrder(t3, t3.parent[self])

\* C29: every rotation (single left, single right, left-right, right-left)
\* leaves the in-order sequence of the whole tree unchanged: each of the
\* four applied at any node of a reachable tree that has the children it
\* needs, and each rotation balance performs for the next insertion.
C29_RotationsKeepOrder ==
    /\ \A n \in Nodes(tree) :
          /\ tree.right[n] # 0 =>
                TopIter(left_rotate(tree, n), n) = AvlTree_iter(tree)
          /\ tree.left[n] # 0 =>
                TopIter(right_rotate(tree, n), n) = AvlTree_iter(tree)
          /\ (tree.left[n] # 0 /\ tree.right[tree.left[n]] # 0) =>
                TopIter(right_rotate(left_rotate(tree, tree.left[n]), n), n)
                    = AvlTree_iter(tree)
          /\ (tree.right[n] # 0 /\ tree.left[tree.right[n]] # 0) =>
                TopIter(left_rotate(right_rotate(tree, tree.right[n]), n), n)
                    = AvlTree_iter(tree)
    /\ (tree.root # 0 /\ Len(inserted) < MaxNodes) =>
          \A e \in Values :
              LET t1   == BNode_init(tree, e)
                  node == Len(t1.element)
                  t2   == BNode_add(t1, t1.root, node)
              IN  RotationsKeepOrder(t2, node)

\* a full tree whose last insertion was balanced by a double rotation: the
\* node just added, a leaf when _BNode.add returned, has two children
C29_Witness ==
    /\ Len(inserted) = MaxNodes
    /\ tree.left[MaxNodes] # 0 /\ tree.right[MaxNodes] # 0

\* every cached height of t is unknown (-1) or the height of the subtree
CacheValid(t) ==
    \A n \in Nodes(t) : t.height[n] = -1 \/ t.height[n] = SubtreeHeight(t, n)

\* balance started at self: the heights it compares at each node on the way
\* up are the heights of the subtrees, and the caches stay valid after the
\* rotations done at each node
RECURSIVE BalanceHeightsTrue(_, _)
BalanceHeightsTrue(t, self) ==
    LET t1 == get_height(t, t.left[self])
        t2 == get_height(t1, t.right[self])
        leftHeight == get_height_value(t2, t.left[self])
        rightHeight == get_height_value(t2, t.right[self])
        t3 == Rebalance(t2, self, leftHeight, rightHeight)
    IN  /\ leftHeight = SubtreeHeight(t, t.left[self])
        /\ rightHeight = SubtreeHeight(t, t.right[self])
        /\ CacheValid(t2)
        /\ CacheValid(t3)
        /\ t3.parent[self] # 0 => BalanceHeightsTrue(t3, t3.parent[self])

\* C33: every cached height is unknown (-1) or 1 + max of the heights of the
\* two subtrees of its node: in every reachable tree, after each of the four
\* rotations applied to it with every height cached, and after _BNode.add
\* and each step of balance for the next insertion; AvlTree.height and the
\* heights compared by balance are the heights of the subtrees.
C33_CachedHeights ==
    /\ CacheValid(tree)
    /\ AvlTree_height(tree) = SubtreeHeight(tree, tree.root)
    /\ LET cached == get_height(tree, tree.root)
       IN  /\ CacheValid(cached)
           /\ \A n \in Nodes(tree) :
                 /\ tree.right[n] # 0 => CacheValid(left_rotate(cached, n))
                 /\ tree.left[n] # 0 => CacheValid(right_rotate(cached, n))
                 /\ (tree.left[n] # 0 /\ tree.right[tree.left[n]] # 0) =>
                       CacheValid(right_rotate(left_rotate(cached, tree.left[n]), n))
                 /\ (tree.right[n] # 0 /\ tree.left[tree.right[n]] # 0) =>
                       CacheValid(left_rotate(right_rotate(cached, tree.right[n]), n))
    /\ (tree.root # 0 /\ Len(inserted) < MaxNodes) =>
          \A e \in Values :
              LET t1   == BNode_init(tree, e)
                  node == Len(t1.element)
                  t2   == BNode_add(t1, t1.root, node)
              IN  CacheValid(t2) /\ BalanceHeightsTrue(t2, node)

\* a full tree whose root was rotated into place by an earlier insertion:
\* the height of the root is unknown, both its children hold a cached height
\* and the height of the tree is 2
C33_Witness ==
    /\ Len(inserted) = MaxNodes
    /\ tree.root # 1
    /\ tree.height[tree.root] = -1
    /\ AvlTree_height(tree) = 2
    /\ tree.left[tree.root] # 0 /\ tree.height[tree.left[tree.root]] >= 0
    /\ tree.right[tree.root] # 0 /\ tree.height[tree.right[tree.root]] >= 0

\* the number of children of p that are the node n
ChildLinks(t, p, n) ==
    (IF t.left[p] = n THEN 1 ELSE 0) + (IF t.right[p] = n THEN 1 ELSE 0)

\* C34: after every add the node held as root has no parent, every other
\* node has a parent of which it is exactly one of the two children, and
\* every node inserted so far is reached from the root exactly once.
C34_LinksConsistent ==
    /\ tree.root = 0 <=> Nodes(tree) = {}
    /\ tree.root # 0 => tree.parent[tree.root] = 0
    /\ \A n \in Nodes(tree) \ {tree.root} :
          /\ tree.parent[n] \in Nodes(tree)
          /\ ChildLinks(tree, tree.parent[n], n) = 1
    /\ Len(AvlTree_nodes(tree)) = Len(inserted)
    /\ \A n \in Nodes(tree) : Count(AvlTree_nodes(tree), n) = 1

\* a full tree whose first node has been rotated out of the root and still
\* has a child
C34_Witness ==
    /\ Len(inserted) = MaxNodes
    /\ tree.root # 1
    /\ tree.parent[1] # 0
    /\ tree.left[1] # 0 \/ tree.right[1] # 0

\* the rank of the node n in the iteration of the tree
NodePosition(t, n) ==
    CHOOSE i \in 1..Len(AvlTree_nodes(t)) : AvlTree_nodes(t)[i] = n

\* C35: insertion is stable. The nodes are numbered in the order of their
\* insertion: of two nodes whose elements compare equal, the one inserted
\* first is iterated first, whatever rotations were done since.
C35_StableInsertion ==
    \A i, j \in Nodes(tree) :
        (i < j /\ Comparator(tree.comparator, tree.element[i], tree.element[j]) = 0)
            => NodePosition(tree, i) < NodePosition(tree, j)

\* a full tree holding three equal elements, the first of which has been
\* rotated: it is no longer the root nor a child of the root
C35_Witness ==
    /\ Len(inserted) = MaxNodes
    /\ \E i, j, k \in Nodes(tree) :
          /\ i < j /\ j < k
          /\ tree.element[i] = tree.element[j] /\ tree.element[j] = tree.element[k]
          /\ tree.root # i
          /\ tree.parent[i] # tree.root
          /\ tree.parent[j] # i /\ tree.parent[k] # j

\* the path C30 describes, from node n: a result of 0 ends it, a negative
\* result goes on in the right child, a positive one in the left child, and
\* an absent child ends it
RECURSIVE DescentPath(_, _, _)
DescentPath(t, n, data) ==
    LET result == SearchComparator(t, data, t.element[n])
        child == IF result < 0 THEN t.right[n] ELSE t.left[n]
    IN  IF result = 0 \/ child = 0 THEN <<n>>
        ELSE <<n>> \o DescentPath(t, child, data)

\* C30: search examines the nodes of a single path from the root and no
\* other node: it returns the element of the node whose result is 0, goes
\* right on a negative result, left on a positive one, and returns None as
\* soon as the child required is absent.
C30_SearchSinglePath ==
    \A q \in query :
        IF tree.root = 0 THEN found = {}
        ELSE LET trace == BNode_search_trace(tree, tree.root, q)
                 path == DescentPath(tree, tree.root, q)
                 last == path[Len(path)]
             IN  /\ trace.examined = path
                 /\ path[1] = tree.root
                 /\ \A i \in 1..(Len(path) - 1) :
                       /\ tree.parent[path[i + 1]] = path[i]
                       /\ SearchComparator(tree, q, tree.element[path[i]]) # 0
                 /\ trace.node = BNode_search(tree, tree.root, q)
                 /\ found = IF SearchComparator(tree, q, tree.element[last]) = 0
                            THEN {tree.element[last]} ELSE {}

\* a full tree; the search went left then right and stopped at a leaf that
\* does not match, the other child of the root having children
C30_Witness ==
    /\ Len(inserted) = MaxNodes
    /\ found = {}
    /\ \E q \in query :
          LET path == DescentPath(tree, tree.root, q)
          IN  /\ Len(path) = 3
              /\ path[2] = tree.left[path[1]]
              /\ path[3] = tree.right[path[2]]
              /\ tree.right[path[1]] # 0
              /\ tree.left[tree.right[path[1]]] # 0

---------------------------------------------------------------------------
(* Specification of the tree of test_avltree.py: the six integers of setUp,
   each added once, in any order, to a tree built empty or with one of them *)

\* the elements of TestAvlTree.setUp, in the order it adds them
TestSequence == <<51, -12, 25, 69, -2, 2>>

TestValues == {TestSequence[i] : i \in DOMAIN TestSequence}

InitCase ==
    /\ \E elt \in {{}} \cup {{e} : e \in TestValues} :
          /\ tree = AvlTree_init("diff", elt)
          /\ inserted = IF elt = {} THEN <<>> ELSE <<CHOOSE e \in elt : TRUE>>
    /\ query = {}
    /\ found = {}
    /\ Analyzer_init(DefaultParallelCount)
    /\ NoCorrector
    /\ NoChain

\* tree.add(e), e an element of the test not added yet
CaseAdd ==
    /\ \E e \in TestValues \ {inserted[i] : i \in DOMAIN inserted} :
          /\ tree' = AvlTree_add(tree, e)
          /\ inserted' = Append(inserted, e)
    /\ UNCHANGED <<query, found>>
    /\ UNCHANGED schedVars
    /\ UNCHANGED appVars

NextCase == CaseAdd

SpecCase == InitCase /\ [][NextCase]_vars

\* C23: 51, -12, 25, 69, -2, 2 inserted in that order (51 given to the
\* constructor or added first) give a tree of size 6 and height 2 whose
\* iteration is -12, -2, 2, 25, 51, 69.
C23_TestCase ==
    inserted = TestSequence =>
        /\ AvlTree_len(tree) = 6
        /\ AvlTree_height(tree) = 2
        /\ AvlTree_iter(tree) = <<-12, -2, 2, 25, 51, 69>>

\* the tree of setUp is built
C23_Witness ==
    /\ inserted = TestSequence
    /\ Len(tree.element) = 6
    /\ tree.root # 0

---------------------------------------------------------------------------
(* plugin/analyzer.py : GrammalecteAnalyzer and _SingleAnalyzer.

   add_request is called by the thread of the GLib main loop (Main), one
   call after the other. _SingleAnalyzer.run, and with it _terminate_request
   and the __start_request it calls, is executed by the worker thread itself.
   The code takes no lock, so the threads interleave between any two
   accesses to the analyzer: a thread is modelled by pc[t], the access it is
   about to make.

     idle      Main, outside add_request
     unborn    a _SingleAnalyzer not created yet
     run       a worker inside __call_grammalecte
     tr_load   _terminate_request: reads _free_room      (_free_room += 1)
     tr_store  _terminate_request: writes _free_room
     tr_emit   _terminate_request: emits analyze-finished
     sr_room   __start_request: tests _free_room > 0
     sr_empty  __start_request: tests not _queue.empty()
     sr_load   __start_request: reads _free_room         (_free_room -= 1)
     sr_store  __start_request: writes _free_room
     sr_get    __start_request: _queue.get(), which waits while the queue is empty
     sr_emit   __start_request: emits analyze-started
     sr_start  __start_request: thread.start()
     done      a worker whose run has returned
     died      a worker whose run was left by an exception                  *)

Workers == Threads \ {Main}

\* where a thread goes when __start_request returns: Main is back in its
\* caller; for a worker _terminate_request and the finally clause of run are
\* over, and run returns, or the exception that except _IgnoredException
\* did not catch leaves run and ends the thread
Return(t) ==
    IF t = Main THEN "idle"
    ELSE IF analysis[t].raised = "Exception" THEN "died" ELSE "done"

\* the outcomes of _SingleAnalyzer.__call_grammalecte: a list of errors,
\* _IgnoredException (no configuration), any other exception
Outcomes == {"errors", "ignored", "failed"}

\* what requester.get_config() returns: None ({}) or a configuration
Configs == {{}, {"config"}}

\* where __call_grammalecte fails: nowhere, while the checker is set up
\* (before the text is asked for), from requester.get_text() on
Faults == {"none", "setup", "analysis"}

\* mutant of __call_grammalecte: the text is fetched before the
\* configuration is tested
call_grammalecte_text_first(config, fault) ==
    IF config = {}
    THEN [raised |-> "_IgnoredException", fetched |-> TRUE, outcome |-> "ignored"]
    ELSE IF fault = "setup"
    THEN [raised |-> "Exception", fetched |-> TRUE, outcome |-> "failed"]
    ELSE IF fault = "analysis"
    THEN [raised |-> "Exception", fetched |-> TRUE, outcome |-> "failed"]
    ELSE [raised |-> "none", fetched |-> TRUE, outcome |-> "errors"]

\* _SingleAnalyzer.__call_grammalecte: the exception it raises, whether it
\* called requester.get_text(), and how run sees it end
call_grammalecte(config, fault) ==
    IF config = {}
    THEN [raised |-> "_IgnoredException", fetched |-> FALSE, outcome |-> "ignored"]
    ELSE IF fault = "setup"
    THEN [raised |-> "Exception", fetched |-> FALSE, outcome |-> "failed"]
    ELSE IF fault = "analysis"
    THEN [raised |-> "Exception", fetched |-> TRUE, outcome |-> "failed"]
    ELSE [raised |-> "none", fetched |-> TRUE, outcome |-> "errors"]

\* found_errors as run gives it to _terminate_request: {} is None
FoundErrors(o) == IF o = "errors" THEN {"list"} ELSE {}

\* GrammalecteAnalyzer.add_request: _queue.put(requester); the requester of
\* the k-th call is named k
AddRequest ==
    /\ pc[Main] = "idle"
    /\ admitted < MaxRequests
    /\ admitted' = admitted + 1
    /\ queue' = Append(queue, admitted + 1)
    /\ pc' = [pc EXCEPT ![Main] = "sr_room"]
    /\ UNCHANGED <<free_room, capacity, tmp, requester, outcome, log>>
    /\ UNCHANGED analysis
    /\ UNCHANGED treeVars
    /\ UNCHANGED appVars

\* __start_request: if self._free_room > 0 ...
CheckRoom(t) ==
    /\ pc[t] = "sr_room"
    /\ pc' = [pc EXCEPT ![t] = IF free_room > 0 THEN "sr_empty" ELSE Return(t)]
    /\ UNCHANGED <<free_room, queue, capacity, tmp, requester, outcome, admitted, log>>
    /\ UNCHANGED analysis
    /\ UNCHANGED treeVars
    /\ UNCHANGED appVars

\* __start_request: ... and not self._queue.empty()
CheckEmpty(t) ==
    /\ pc[t] = "sr_empty"
    /\ pc' = [pc EXCEPT ![t] = IF queue # <<>> THEN "sr_load" ELSE Return(t)]
    /\ UNCHANGED <<free_room, queue, capacity, tmp, requester, outcome, admitted, log>>
    /\ UNCHANGED analysis
    /\ UNCHANGED treeVars
    /\ UNCHANGED appVars

\* __start_request: self._free_room -= 1, the read
LoadRoom(t) ==
    /\ pc[t] = "sr_load"
    /\ tmp' = [tmp EXCEPT ![t] = free_room]
    /\ pc' = [pc EXCEPT ![t] = "sr_store"]
    /\ UNCHANGED <<free_room, queue, capacity, requester, outcome, admitted, log>>
    /\ UNCHANGED analysis
    /\ UNCHANGED treeVars
    /\ UNCHANGED appVars

\* __start_request: self._free_room -= 1, the write
StoreRoom(t) ==
    /\ pc[t] = "sr_store"
    /\ free_room' = tmp[t] - 1
    /\ tmp' = [tmp EXCEPT ![t] = 0]
    /\ pc' = [pc EXCEPT ![t] = "sr_get"]
    /\ UNCHANGED <<queue, capacity, requester, outcome, admitted, log>>
    /\ UNCHANGED analysis
    /\ UNCHANGED treeVars
    /\ UNCHANGED appVars

\* mutant of _queue.get(): the head is read and left in the queue
QueueGet_peek(t) ==
    /\ pc[t] = "sr_get"
    /\ queue # <<>>
    /\ requester' = [requester EXCEPT ![t] = Head(queue)]
    /\ pc' = [pc EXCEPT ![t] = "sr_emit"]
    /\ UNCHANGED <<free_room, queue, capacity, tmp, outcome, admitted, log>>
    /\ UNCHANGED analysis
    /\ UNCHANGED treeVars
    /\ UNCHANGED appVars

\* __start_request: requester = self._queue.get()
QueueGet(t) ==
    /\ pc[t] = "sr_get"
    /\ queue # <<>>
    /\ requester' = [requester EXCEPT ![t] = Head(queue)]
    /\ queue' = Tail(queue)
    /\ pc' = [pc EXCEPT ![t] = "sr_emit"]
    /\ UNCHANGED <<free_room, capacity, tmp, outcome, admitted, log>>
    /\ UNCHANGED analysis
    /\ UNCHANGED treeVars
    /\ UNCHANGED appVars

\* mutant of the emission of analyze-started: nothing is emitted
EmitStarted_missing(t) ==
    /\ pc[t] = "sr_emit"
    /\ pc' = [pc EXCEPT ![t] = "sr_start"]
    /\ UNCHANGED <<free_room, queue, capacity, tmp, requester, outcome, admitted, log>>
    /\ UNCHANGED analysis
    /\ UNCHANGED treeVars
    /\ UNCHANGED appVars

\* __start_request: self.emit("analyze-started", requester)
EmitStarted(t) ==
    /\ pc[t] = "sr_emit"
    /\ log' = Append(log, [type |-> "started", requester |-> requester[t],
                           result |-> {}])
    /\ pc' = [pc EXCEPT ![t] = "sr_start"]
    /\ UNCHANGED <<free_room, queue, capacity, tmp, requester, outcome, admitted>>
    /\ UNCHANGED analysis
    /\ UNCHANGED treeVars
    /\ UNCHANGED appVars

\* __start_request: thread.start(), thread being the _SingleAnalyzer built
\* for requester (the first one not created yet)
ThreadStart(t) ==
    /\ pc[t] = "sr_start"
    /\ \E w \in Workers :
          /\ pc[w] = "unborn"
          /\ \A v \in Workers : v < w => pc[v] # "unborn"
          /\ pc' = [pc EXCEPT ![t] = Return(t), ![w] = "run"]
          /\ requester' = [requester EXCEPT ![t] = 0, ![w] = requester[t]]
    /\ UNCHANGED <<free_room, queue, capacity, tmp, outcome, admitted, log>>
    /\ UNCHANGED analysis
    /\ UNCHANGED treeVars
    /\ UNCHANGED appVars

\* mutant of _SingleAnalyzer.run: no finally clause, _terminate_request is
\* called only when __call_grammalecte returned or was ignored
Run_no_finally(w) ==
    /\ pc[w] = "run"
    /\ \E config \in Configs, fault \in Faults :
          LET r == call_grammalecte(config, fault)
          IN  /\ outcome' = [outcome EXCEPT ![w] = r.outcome]
              /\ analysis' = [analysis EXCEPT ![w] =
                                 [requester |-> requester[w], config |-> config,
                                  fetched |-> r.fetched, raised |-> r.raised]]
              /\ pc' = [pc EXCEPT ![w] = IF r.raised = "Exception"
                                         THEN "died" ELSE "tr_load"]
    /\ UNCHANGED <<free_room, queue, capacity, tmp, requester, admitted, log>>
    /\ UNCHANGED treeVars
    /\ UNCHANGED appVars

\* _SingleAnalyzer.run up to the finally clause
Run(w) ==
    /\ pc[w] = "run"
    /\ \E config \in Configs, fault \in Faults :
          LET r == call_grammalecte(config, fault)
          IN  /\ outcome' = [outcome EXCEPT ![w] = r.outcome]
              /\ analysis' = [analysis EXCEPT ![w] =
                                 [requester |-> requester[w], config |-> config,
                                  fetched |-> r.fetched, raised |-> r.raised]]
    /\ pc' = [pc EXCEPT ![w] = "tr_load"]
    /\ UNCHANGED <<free_room, queue, capacity, tmp, requester, admitted, log>>
    /\ UNCHANGED treeVars
    /\ UNCHANGED appVars

\* _terminate_request: self._free_room += 1, the read
TermLoad(w) ==
    /\ pc[w] = "tr_load"
    /\ tmp' = [tmp EXCEPT ![w] = free_room]
    /\ pc' = [pc EXCEPT ![w] = "tr_store"]
    /\ UNCHANGED <<free_room, queue, capacity, requester, outcome, admitted, log>>
    /\ UNCHANGED analysis
    /\ UNCHANGED treeVars
    /\ UNCHANGED appVars

\* _terminate_request: self._free_room += 1, the write
TermStore(w) ==
    /\ pc[w] = "tr_store"
    /\ free_room' = tmp[w] + 1
    /\ tmp' = [tmp EXCEPT ![w] = 0]
    /\ pc' = [pc EXCEPT ![w] = "tr_emit"]
    /\ UNCHANGED <<queue, capacity, requester, outcome, admitted, log>>
    /\ UNCHANGED analysis
    /\ UNCHANGED treeVars
    /\ UNCHANGED appVars

\* _terminate_request: self.emit("analyze-finished", requester, found_errors),
\* then self.__start_request()
EmitFinished(w) ==
    /\ pc[w] = "tr_emit"
    /\ log' = Append(log, [type |-> "finished", requester |-> requester[w],
                           result |-> FoundErrors(outcome[w])])
    /\ pc' = [pc EXCEPT ![w] = "sr_room"]
    /\ requester' = [requester EXCEPT ![w] = 0]
    /\ outcome' = [outcome EXCEPT ![w] = "none"]
    /\ UNCHANGED <<free_room, queue, capacity, tmp, admitted>>
    /\ UNCHANGED analysis
    /\ UNCHANGED treeVars
    /\ UNCHANGED appVars

InitSched ==
    /\ \E count \in 1..MaxCapacity : Analyzer_init(count)
    /\ NoCorrector
    /\ NoChain
    /\ tree = EmptyTree("diff")
    /\ inserted = <<>>
    /\ query = {}
    /\ found = {}

NextSched ==
    \/ AddRequest
    \/ \E t \in Threads : CheckRoom(t)
    \/ \E t \in Threads : CheckEmpty(t)
    \/ \E t \in Threads : LoadRoom(t)
    \/ \E t \in Threads : StoreRoom(t)
    \/ \E t \in Threads : QueueGet(t)
    \/ \E t \in Threads : EmitStarted(t)
    \/ \E t \in Threads : ThreadStart(t)
    \/ \E w \in Workers : Run(w)
    \/ \E w \in Workers : TermLoad(w)
    \/ \E w \in Workers : TermStore(w)
    \/ \E w \in Workers : EmitFinished(w)

SpecSched == InitSched /\ [][NextSched]_vars


---------------------------------------------------------------------------
(* Properties of the analyzer *)

\* the positions in log of the notifications of a type for a requester
Events(type, a) ==
    {i \in DOMAIN log : log[i].type = type /\ log[i].requester = a}

Admissions == 1..MaxRequests

\* the accesses of add_request, _terminate_request and __start_request
ControlPcs == {"tr_load", "tr_store", "tr_emit", "sr_room", "sr_empty",
               "sr_load", "sr_store", "sr_get", "sr_emit", "sr_start"}

\* no thread is inside the analyzer or inside an analysis
Quiescent == \A t \in Threads : pc[t] \in {"idle", "unborn", "done", "died"}

\* C3: the number of units started and not yet completed never exceeds the
\* capacity the analyzer was built with. Counted here are only the units
\* still inside their analysis (run has not reached its finally clause).
C3_RunningWithinCapacity ==
    Cardinality({w \in Workers : pc[w] = "run"}) <= capacity

\* C4: each admission gets at most one analyze-started and at most one
\* analyze-finished, a finished only after it was started; every unit that
\* ended (whatever its outcome) has reported its completion, once.
C4_AtMostOnce ==
    /\ \A a \in Admissions :
          /\ Cardinality(Events("started", a)) <= 1
          /\ Cardinality(Events("finished", a)) <= Cardinality(Events("started", a))
          /\ a > admitted => Events("started", a) = {}
    /\ \A i \in DOMAIN log : log[i].requester \in Admissions
    /\ Cardinality({i \in DOMAIN log : log[i].type = "finished"})
         = Cardinality({w \in Workers :
                           pc[w] \in (ControlPcs \cup {"done", "died"})
                                       \ {"tr_load", "tr_store", "tr_emit"}})

\* every admission was started and finished, with and without a result
C4_Witness ==
    /\ \A a \in Admissions : Events("started", a) # {} /\ Events("finished", a) # {}
    /\ \E i, j \in DOMAIN log :
          /\ log[i].type = "finished" /\ log[i].result = {}
          /\ log[j].type = "finished" /\ log[j].result # {}

\* C5 (its finite form): once nothing runs any more, every admitted request
\* has been started and finished, the queue is empty and no capacity slot
\* is lost.
C5_QuiescentAllServed ==
    Quiescent =>
        /\ queue = <<>>
        /\ free_room = capacity
        /\ \A a \in 1..admitted : Events("started", a) # {} /\ Events("finished", a) # {}

\* C6: the analyze-started of an admission is emitted strictly before its
\* analyze-finished.
C6_StartedBeforeFinished ==
    \A i \in DOMAIN log :
        log[i].type = "finished" =>
            \E j \in 1..(i - 1) :
                log[j].type = "started" /\ log[j].requester = log[i].requester

\* two units finished, the second one started only after the first finished
C6_Witness ==
    \E i, j, k \in DOMAIN log :
        /\ i < j /\ j < k
        /\ log[i].type = "finished"
        /\ log[j].type = "started"
        /\ log[k].type = "finished" /\ log[k].requester = log[j].requester

\* C7: requests start in admission order (requesters are numbered in the
\* order of the add_request calls).
C7_FifoStart ==
    \A i, j \in DOMAIN log :
        (i < j /\ log[i].type = "started" /\ log[j].type = "started")
            => log[i].requester < log[j].requester

\* C8: at most one thread at a time is inside add_request,
\* _terminate_request or __start_request.
C8_Serialized ==
    Cardinality({t \in Threads : pc[t] \in ControlPcs}) <= 1

\* C9: 0 <= _free_room <= the capacity read at construction.
C9_FreeRoomInRange ==
    0 <= free_room /\ free_room <= capacity

\* C16: add_request always returns to its caller without waiting: Main is
\* never at _queue.get() with an empty queue.
C16_AddRequestNeverWaits ==
    ~(pc[Main] = "sr_get" /\ queue = <<>>)

\* the accesses of _terminate_request up to the emission of analyze-finished
TermPcs == {"tr_load", "tr_store", "tr_emit"}

\* __call_grammalecte of the worker is over
HasRun(w) == pc[w] \notin {"unborn", "run"}

\* the analyze-finished of the unit of worker w: none before its emission,
\* after it exactly one, which carries None
FinishedOnceWithNone(w) ==
    LET f == Events("finished", analysis[w].requester)
    IN  IF pc[w] \in TermPcs THEN f = {}
        ELSE Cardinality(f) = 1 /\ \A i \in f : log[i].result = {}

\* worker w executes self._free_room += 1: it writes the value it read
\* plus one and goes on to the emission of analyze-finished
ReleasesSlot(w) ==
    /\ (pc[w] = "tr_load" /\ pc'[w] # pc[w]) =>
            (tmp'[w] = free_room /\ pc'[w] = "tr_store")
    /\ (pc[w] = "tr_store" /\ pc'[w] # pc[w]) =>
            (free_room' = tmp[w] + 1 /\ pc'[w] = "tr_emit")

\* C17: when get_config() gives None, the unit does not fetch the text of
\* the requester, no exception leaves run (_IgnoredException is caught), its
\* analyze-finished is emitted once and carries None, and _free_room is
\* incremented as for any completion.
C17_NoConfigSkips ==
    /\ [](\A w \in Workers :
            (HasRun(w) /\ analysis[w].config = {}) =>
                /\ ~analysis[w].fetched
                /\ analysis[w].raised = "_IgnoredException"
                /\ pc[w] # "died"
                /\ FinishedOnceWithNone(w))
    /\ [][\A w \in Workers :
            (HasRun(w) /\ analysis[w].config = {}) => ReleasesSlot(w)]_vars

\* capacity 1: a unit without configuration has ended, and the slot it
\* released let the next request start
C17_Witness ==
    \E w \in Workers :
        /\ capacity = 1
        /\ pc[w] = "done"
        /\ analysis[w].config = {}
        /\ \E i, j \in DOMAIN log :
              /\ i < j
              /\ log[i].type = "finished" /\ log[i].requester = analysis[w].requester
              /\ log[j].type = "started"

C19_StartAfterFinishes ==
    \A i \in DOMAIN log :
        (log[i].type = "started" /\ log[i].requester > capacity) =>
            Cardinality({j \in 1..(i - 1) : log[j].type = "finished"})
                >= log[i].requester - capacity

\* C20: with capacity 2 and three requests admitted, exactly two
\* analyze-started are emitted before any analyze-finished: once the three
\* add_request calls have returned and as long as no analyze-finished was
\* emitted, two analyze-started were emitted.
C20_TwoStartedBeforeFinished ==
    (/\ capacity = 2
     /\ admitted = 3
     /\ pc[Main] = "idle"
     /\ \A i \in DOMAIN log : log[i].type # "finished")
        => Cardinality({i \in DOMAIN log : log[i].type = "started"}) = 2

\* C21: whenever every admitted request has completed (the queue is empty,
\* no unit is running and no thread is inside the analyzer), _free_room is
\* the capacity it was initialised with: the number of running units, then
\* 0, is capacity - _free_room.
C21_IdleFreeRoomIsCapacity ==
    (/\ queue = <<>>
     /\ \A t \in Threads : pc[t] \in {"idle", "unborn", "done", "died"}
     /\ \A a \in 1..admitted : Events("finished", a) # {})
        => Cardinality({w \in Workers : pc[w] = "run"}) = capacity - free_room

\* the step emits analyze-finished
FinishedStep ==
    /\ Len(log') = Len(log) + 1
    /\ log'[Len(log')].type = "finished"

\* the requests whose analyze-started was emitted and whose analyze-finished
\* was not
Unfinished ==
    {a \in Admissions : Events("started", a) # {} /\ Events("finished", a) = {}}

\* C31: when analyze-finished is emitted, _free_room is already incremented
\* (a slot is free) and no queued request has taken over the slot yet: its
\* analyze-started is not emitted, so the requests started and not finished,
\* the completed one included, are no more than the capacity.
C31_FinishedBeforeTakeover ==
    [][FinishedStep =>
          /\ free_room >= 1
          /\ Cardinality(Unfinished) <= capacity]_vars

\* no add_request, _terminate_request or __start_request is in progress
NoControl == \A t \in Threads : pc[t] \notin ControlPcs

\* C32: whenever no add_request and no _terminate_request is in progress,
\* it is not the case that _free_room > 0 and the queue is not empty.
C32_WorkConserving ==
    NoControl => ~(free_room > 0 /\ queue # <<>>)


---------------------------------------------------------------------------
(* Specification of the error store: errors with start <= end, added in any
   order, and searches by position *)

Positions == (0..MaxLine) \X (0..MaxOffset)

\* (line, offset) order of positions
PosLeq(p, q) == p[1] < q[1] \/ (p[1] = q[1] /\ p[2] <= q[2])

\* GrammalecteError, reduced to its start and end
Errors == {e \in [start : Positions, end : Positions] : PosLeq(e.start, e.end)}

\* GrammalecteErrorStore.__init__
Store_init == AvlTree_init("compare", {})

InitStore ==
    /\ tree = Store_init
    /\ inserted = <<>>
    /\ query = {}
    /\ found = {}
    /\ Analyzer_init(DefaultParallelCount)
    /\ NoCorrector
    /\ NoChain

\* store.add(error)
StoreAdd ==
    /\ Len(inserted) < MaxErrors
    /\ \E e \in Errors :
          /\ tree' = AvlTree_add(tree, e)
          /\ inserted' = Append(inserted, e)
    /\ query' = {}
    /\ found' = {}
    /\ UNCHANGED schedVars
    /\ UNCHANGED appVars

\* store.search((line, offset))
StoreSearch ==
    /\ \E p \in Positions :
          /\ query' = {[kind |-> "position", value |-> p]}
          /\ found' = Store_search(tree, [kind |-> "position", value |-> p])
    /\ UNCHANGED <<tree, inserted>>
    /\ UNCHANGED schedVars
    /\ UNCHANGED appVars

NextStore == StoreAdd \/ StoreSearch

SpecStore == InitStore /\ [][NextStore]_vars

---------------------------------------------------------------------------
(* Properties of the error store *)

\* the span of the error contains the position
Contains(e, p) == PosLeq(e.start, p) /\ PosLeq(p, e.end)

Stored == {inserted[i] : i \in DOMAIN inserted}

\* C10: whatever the errors stored, search(position) returns an error whose
\* span contains the position whenever a stored error's span contains it.
C10_SearchFindsCovering ==
    \A q \in query :
        (q.kind = "position" /\ \E e \in Stored : Contains(e, q.value))
            => (found # {} /\ \A f \in found : Contains(f, q.value))

\* C11: search(position) never returns an error whose span does not contain
\* the position: what it returns is a stored error containing the position,
\* and a position no stored error contains (in a gap, before the first or
\* after the last error) gives None.
C11_SearchOnlyCovering ==
    \A q \in query :
        q.kind = "position" =>
            /\ \A f \in found : f \in Stored /\ Contains(f, q.value)
            /\ (\A e \in Stored : ~Contains(e, q.value)) => found = {}

\* a position in the gap between two stored errors of the same line, a third
\* error being stored: nothing is found
C11_Witness ==
    /\ Len(inserted) = MaxErrors
    /\ found = {}
    /\ \E q \in query :
          /\ q.kind = "position"
          /\ \E e, f \in Stored :
                /\ e.end[1] = q.value[1] /\ e.end[2] < q.value[2]
                /\ f.start[1] = q.value[1] /\ q.value[2] < f.start[2]

\* C22: iterating the store yields the errors stored, in non-decreasing
\* lexicographic order of start position (line first, then offset),
\* whatever the insertion order and the end positions.
C22_StoreIterByStart ==
    LET it == AvlTree_iter(tree)
    IN  /\ Len(it) = Len(inserted)
        /\ \A e \in Stored : Count(it, e) = Count(inserted, e)
        /\ \A i \in 1..Len(it) : it[i] \in Stored
        /\ \A i, j \in 1..Len(it) : i < j => PosLeq(it[i].start, it[j].start)

\* a full store of errors with three different starts, inserted neither in
\* ascending nor in descending order, the first in line ending last
C22_Witness ==
    /\ Len(inserted) = MaxErrors
    /\ Cardinality({e.start : e \in Stored}) = MaxErrors
    /\ \E i \in 1..(Len(inserted) - 1) :
          ~PosLeq(inserted[i].start, inserted[i + 1].start)
    /\ \E i \in 1..(Len(inserted) - 1) :
          ~PosLeq(inserted[i + 1].start, inserted[i].start)
    /\ LET it == AvlTree_iter(tree)
       IN  \A i \in 2..Len(it) : ~PosLeq(it[1].end, it[i].end)

\* the tree obtained by adding the elements of s, in order, to an empty tree
RECURSIVE Build(_, _)
Build(comparator, s) ==
    IF s = <<>> THEN AvlTree_init(comparator, {})
    ELSE AvlTree_add(Build(comparator, SubSeq(s, 1, Len(s) - 1)), s[Len(s)])

\* the iteration of the tree built from the elements inserted, taken in the
\* order p
IterReordered(p) ==
    AvlTree_iter(Build(tree.comparator, [i \in DOMAIN inserted |-> inserted[p[i]]]))

\* Every tree is reached by an add, which resets the last search: the two
\* formulas below compare each tree once, in the state its add leaves.

\* C24 as stated: the same elements inserted in any other order give the
\* same iteration sequence, element for element.
C24_IterOrderIndependent ==
    query = {} =>
        \A p \in Permutations(DOMAIN inserted) :
            IterReordered(p) = AvlTree_iter(tree)

\* C24 amended: the same elements inserted in any other order give an
\* iteration sequence of the same length whose element at each position
\* compares equal to the one at that position here; the two sequences are
\* the same, element for element, when no two different elements inserted
\* compare equal.
C24_IterOrderIndependentUpToTies ==
    query = {} =>
        \A p \in Permutations(DOMAIN inserted) :
            LET it  == AvlTree_iter(tree)
                it2 == IterReordered(p)
            IN  /\ Len(it2) = Len(it)
                /\ \A i \in 1..Len(it) :
                      Comparator(tree.comparator, it[i], it2[i]) = 0
                /\ (\A e, f \in Stored :
                        Comparator(tree.comparator, e, f) = 0 => e = f)
                      => it2 = it

\* a full store of three different errors, two of them with the same start,
\* inserted in an order which is not the order of the iteration
C24_Witness ==
    /\ Len(inserted) = MaxErrors
    /\ Cardinality(Stored) = MaxErrors
    /\ \E e, f \in Stored : e # f /\ e.start = f.start
    /\ AvlTree_iter(tree) # inserted
    /\ query = {}

---------------------------------------------------------------------------
(* Specification of an error store whose errors do not overlap: the errors
   of one analysis, which mark distinct parts of the text *)

\* number of errors inserted in a store of non-overlapping errors
MaxDisjoint == 4

\* the spans of two errors share a position
Overlap(e, f) == PosLeq(e.start, f.end) /\ PosLeq(f.start, e.end)

NonOverlapping ==
    \A i, j \in DOMAIN inserted : i # j => ~Overlap(inserted[i], inserted[j])

\* store.add(error), error overlapping none of the errors stored
StoreAddDisjoint ==
    /\ Len(inserted) < MaxDisjoint
    /\ \E e \in Errors :
          /\ \A i \in DOMAIN inserted : ~Overlap(e, inserted[i])
          /\ tree' = AvlTree_add(tree, e)
          /\ inserted' = Append(inserted, e)
    /\ query' = {}
    /\ found' = {}
    /\ UNCHANGED schedVars
    /\ UNCHANGED appVars

NextDisjoint == StoreAddDisjoint \/ StoreSearch

SpecDisjoint == InitStore /\ [][NextDisjoint]_vars

\* the error is on one line / on several lines
SingleLine(e) == e.start[1] = e.end[1]
MultiLine(e) == e.start[1] < e.end[1]

\* C12: in a store of pairwise non-overlapping errors, for every stored
\* single-line error from (l, s) to (l, e), search((l, o)) returns that very
\* error for every o with s <= o <= e, whatever the insertion order.
C12_SingleLineInclusive ==
    NonOverlapping =>
        \A q \in query : \A e \in Stored :
            (/\ q.kind = "position"
             /\ SingleLine(e)
             /\ q.value[1] = e.start[1]
             /\ e.start[2] <= q.value[2] /\ q.value[2] <= e.end[2])
                => found = {e}

\* a full store, the error found by its end offset being a leaf two levels
\* below the root
C12_Witness ==
    /\ Len(inserted) = MaxDisjoint
    /\ \E q \in query : \E e \in found :
          /\ q.kind = "position"
          /\ SingleLine(e) /\ e.start[2] < e.end[2]
          /\ q.value = e.end
          /\ \E n \in Nodes(tree) :
                /\ tree.element[n] = e
                /\ tree.parent[n] # 0 /\ tree.parent[tree.parent[n]] # 0

\* the positions for which C13 says search returns the multi-line error e
MultiLineHit(e, p) ==
    \/ e.start[1] < p[1] /\ p[1] < e.end[1]
    \/ p[1] = e.start[1] /\ p[2] >= e.start[2]
    \/ p[1] = e.end[1] /\ p[2] <= e.end[2]

\* the positions for which C13 says search returns None
MultiLineMiss(e, p) ==
    \/ p[1] = e.start[1] /\ p[2] < e.start[2]
    \/ p[1] = e.end[1] /\ p[2] > e.end[2]

\* C13 as stated: in a store of pairwise non-overlapping errors, for every
\* stored multi-line error, search returns that error for a position on a
\* line strictly inside, at or after the start offset on the start line, at
\* or before the end offset on the end line; before the start offset on the
\* start line or after the end offset on the end line it returns None.
C13_MultiLineAsStated ==
    NonOverlapping =>
        \A q \in query : \A e \in Stored :
            (q.kind = "position" /\ MultiLine(e)) =>
                /\ MultiLineHit(e, q.value) => found = {e}
                /\ MultiLineMiss(e, q.value) => found = {}

\* C13 amended: same hits; before the start offset on the start line or
\* after the end offset on the end line search never returns that error, and
\* returns None unless another stored error contains the position (then it
\* returns that other error).
C13_MultiLine ==
    NonOverlapping =>
        \A q \in query : \A e \in Stored :
            (q.kind = "position" /\ MultiLine(e)) =>
                /\ MultiLineHit(e, q.value) => found = {e}
                /\ MultiLineMiss(e, q.value) =>
                      /\ e \notin found
                      /\ \A f \in Stored : Contains(f, q.value) => found = {f}
                      /\ (\A f \in Stored : ~Contains(f, q.value)) => found = {}

\* a full store with an error over three lines which is not the root, found
\* by a position on its inner line
C13_Witness ==
    /\ Len(inserted) = MaxDisjoint
    /\ \E q \in query : \E e \in found :
          /\ q.kind = "position"
          /\ e.start[1] < q.value[1] /\ q.value[1] < e.end[1]
          /\ \E n \in Nodes(tree) : tree.element[n] = e /\ tree.parent[n] # 0

---------------------------------------------------------------------------
(* plugin/autocorrector.py : GrammalecteAutoCorrector, the requester of the
   analyses of one view.  tree is its __store; the markup of the text buffer
   (the callback given to GLib.idle_add) is left to the user interface. *)

\* number of errors in the result of one analysis
MaxResult == 2

\* the requesters: the auto-corrector itself and another one
Self == 1
Other == 2

\* the text buffer of the view
TextBuffer == {"text_buffer"}

\* the errors an analysis reports: those which end with the first line
Reported == {e \in Errors : e.end = <<0, MaxOffset>>}

\* the results of an analysis: {} is None, {l} the list l of errors
Results ==
    {{}} \cup {{l} : l \in UNION {[1..n -> Reported] : n \in 0..MaxResult}}

\* GrammalecteError.filterIgnored: the errors of the list whose context is
\* not ignored by the configuration; ignored holds the indexes of those
\* whose context is
RECURSIVE filterIgnored(_, _)
filterIgnored(errors, ignored) ==
    IF errors = <<>> THEN <<>>
    ELSE LET n    == Len(errors)
             head == filterIgnored(SubSeq(errors, 1, n - 1), ignored)
         IN IF n \in ignored THEN head ELSE Append(head, errors[n])

\* GrammalecteAutoCorrector.on_analyze_finished(_, requester, result): what
\* it raises, and __store (with the errors it was given) and __cur_buffer
\* when it ends
on_analyze_finished(req, result, ignored) ==
    IF req # Self
    THEN [raised |-> "none", store |-> tree, kept |-> inserted, buffer |-> cur_buffer]
    ELSE IF cur_buffer = {}
    THEN [raised |-> "AssertionError", store |-> tree, kept |-> inserted,
          buffer |-> cur_buffer]
    ELSE IF result = {}
    THEN [raised |-> "none", store |-> Store_init, kept |-> <<>>, buffer |-> {}]
    ELSE LET errors == filterIgnored(CHOOSE l \in result : TRUE, ignored)
         IN [raised |-> "none", store |-> Build("compare", errors),
             kept |-> errors, buffer |-> {}]

---------------------------------------------------------------------------
(* Specification of the auto-corrector: its analyses run in the workers, up
   to MaxCapacity at once, each asks for the text unless it fails before and
   each ends with the notification analyze-finished; another requester's
   analyses end too *)

InitCorrector ==
    /\ tree = Store_init
    /\ inserted = <<>>
    /\ query = {}
    /\ found = {}
    /\ \E count \in 1..MaxCapacity : Analyzer_init(count)
    /\ NoCorrector
    /\ NoChain

Analysing == {w \in Workers : pc[w] = "run"}

\* _SingleAnalyzer(self, requester).start(), the requester being the
\* auto-corrector
CorrectorStart(w) ==
    /\ pc[w] = "unborn"
    /\ Cardinality(Analysing) < capacity
    /\ pc' = [pc EXCEPT ![w] = "run"]
    /\ analysis' = [analysis EXCEPT ![w] = [NoAnalysis EXCEPT !.requester = Self,
                                                             !.config = {"config"}]]
    /\ UNCHANGED <<free_room, queue, capacity, tmp, requester, outcome, admitted, log>>
    /\ UNCHANGED <<cur_buffer, handled, chain, call, ticker>>
    /\ UNCHANGED treeVars

\* GrammalecteAutoCorrector.get_text, called by __call_grammalecte
CorrectorGetText(w) ==
    /\ pc[w] = "run"
    /\ ~analysis[w].fetched
    /\ cur_buffer' = TextBuffer
    /\ analysis' = [analysis EXCEPT ![w].fetched = TRUE]
    /\ UNCHANGED <<free_room, queue, capacity, pc, tmp, requester, outcome, admitted, log>>
    /\ UNCHANGED <<handled, chain, call, ticker>>
    /\ UNCHANGED treeVars

\* the notification analyze-finished of an analysis of the auto-corrector:
\* its result is a list when the text was fetched and nothing failed
CorrectorFinished(w) ==
    /\ pc[w] = "run"
    /\ \E result \in Results :
          /\ result # {} => analysis[w].fetched
          /\ \E ignored \in SUBSET (1..MaxResult) :
             \E r \in {on_analyze_finished(Self, result, ignored)} :
                /\ tree' = r.store
                /\ inserted' = r.kept
                /\ cur_buffer' = r.buffer
                /\ handled' = [requester |-> Self,
                               result |-> IF result = {} THEN "None" ELSE "list",
                               raised |-> r.raised]
    /\ pc' = [pc EXCEPT ![w] = "done"]
    /\ query' = {}
    /\ found' = {}
    /\ UNCHANGED <<free_room, queue, capacity, tmp, requester, outcome, admitted,
                   analysis, log>>
    /\ UNCHANGED <<chain, call, ticker>>

\* the notification analyze-finished of an analysis of another requester
OtherFinished ==
    /\ \E result \in Results : \E ignored \in SUBSET (1..MaxResult) :
          \E r \in {on_analyze_finished(Other, result, ignored)} :
             /\ tree' = r.store
             /\ inserted' = r.kept
             /\ cur_buffer' = r.buffer
             /\ handled' = [requester |-> Other,
                            result |-> IF result = {} THEN "None" ELSE "list",
                            raised |-> r.raised]
    /\ UNCHANGED <<query, found>>
    /\ UNCHANGED schedVars
    /\ UNCHANGED <<chain, call, ticker>>

NextCorrector ==
    \/ \E w \in Workers : CorrectorStart(w)
    \/ \E w \in Workers : CorrectorGetText(w)
    \/ \E w \in Workers : CorrectorFinished(w)
    \/ OtherFinished

SpecCorrector == InitCorrector /\ [][NextCorrector]_vars

---------------------------------------------------------------------------
(* Properties of the auto-corrector *)

\* the auto-corrector has just handled the end of one of its own analyses
\* which gave no result
OwnAbsentHandled ==
    /\ \E w \in Workers : pc[w] = "run" /\ pc'[w] = "done"
    /\ handled'.requester = Self
    /\ handled'.result = "None"

\* the auto-corrector handles the end of the analysis of w, one of its own,
\* whose text it gave through get_text
OwnFetchedFinished(w) ==
    /\ pc[w] = "run" /\ pc'[w] = "done"
    /\ analysis[w].requester = Self
    /\ analysis[w].fetched

\* C36: whenever the auto-corrector handles a finished notification for one
\* of its own analyses, the buffer recorded by get_text for that analysis is
\* still set and the assertion on it passes, for any capacity and any number
\* of overlapping analyses of this auto-corrector.
C36_BufferSetWhenFinished ==
    [][\A w \in Workers :
          OwnFetchedFinished(w) =>
              /\ cur_buffer # {}
              /\ handled'.raised = "none"]_vars

\* C25: when the auto-corrector handles its own analyze-finished carrying
\* None, the content of its error store is the same after the handler as
\* before.
C25_AbsentResultKeepsStore ==
    [][OwnAbsentHandled => AvlTree_iter(tree') = AvlTree_iter(tree)]_vars

---------------------------------------------------------------------------
(* plugin/autocorrector.py : the countdown of GrammalecteAutoCorrector.

   __add_request is the callback of a GLib timer (one tick every
   __TICK_DURATION ms); it and the handlers of the signals of the buffer,
   the view and the configuration are run by the GLib main loop, one at a
   time, by the thread Main, which runs none of them while it is inside
   add_request. on_analyze_started is run by the thread that emits
   analyze-started: Main, or the worker whose _terminate_request starts the
   next request. The analyzer is the one of the specification of the
   scheduler, used by this auto-corrector and by other requesters.     *)

MaxTicks == 2
MaxOthers == 1

\* the xPath given with the signal "updated" of the configuration
XPaths == {"locale-dir", "analyze-parallel-count", "analyze-wait-ticks",
           "analyze-options"}

\* GrammalecteAutoCorrector.on_conf_updated
on_conf_updated(tk, xPath) ==
    IF xPath \in {"locale-dir", "analyze-parallel-count", "analyze-wait-ticks"}
    THEN tk
    ELSE ask_request(tk)

\* GrammalecteAutoCorrector.on_analyze_started; isSelf is `requester is self`
on_analyze_started(tk, isSelf) ==
    IF isSelf THEN [tk EXCEPT !.requested = FALSE] ELSE tk

\* GrammalecteAutoCorrector.__add_request up to the call of
\* analyzer.add_request: the fields after it, whether add_request is called
\* (admit) and the value returned (again)
add_request(tk) ==
    IF tk.tick_count = TICK_OFF
    THEN [ticker |-> tk, admit |-> FALSE, again |-> FALSE]
    ELSE LET count == IF tk.tick_count >= 0 THEN tk.tick_count - 1
                      ELSE tk.tick_count
         IN  [ticker |-> [tk EXCEPT !.tick_count = count,
                                    !.requested = IF count = 0 THEN TRUE ELSE @],
              admit  |-> count = 0,
              again  |-> TRUE]

\* mutant of disconnect: the countdown is not switched off
disconnect_counting(tk) == [tk EXCEPT !.connected = FALSE]

\* GrammalecteAutoCorrector.disconnect
disconnect(tk) == [tk EXCEPT !.tick_count = TICK_OFF, !.connected = FALSE]

\* a request of the auto-corrector is queued: admitted, and analyze-started
\* was not emitted for it yet
Queued == \E a \in ticker.mine : Events("started", a) = {}

\* history of a change of the content, of the buffer or of the
\* configuration: the countdown restarts unless a request is queued
Changed(tk) ==
    [tk EXCEPT !.goal = IF Queued THEN @ ELSE tk.wait_ticks,
               !.quiet = IF Queued THEN @ ELSE 0]

\* a tick of the timer: __add_request, and the _queue.put of add_request
\* when it is called; __start_request follows, step by step
TickerTick ==
    /\ pc[Main] = "idle"
    /\ ticker.timer
    /\ LET r == add_request(ticker)
       IN  /\ r.admit => admitted < MaxRequests
           /\ ticker' = [r.ticker EXCEPT
                           !.timer = r.again,
                           !.quiet = IF @ < ticker.goal THEN @ + 1 ELSE @,
                           !.mine = IF r.admit THEN @ \cup {admitted + 1} ELSE @]
           /\ IF r.admit
              THEN /\ admitted' = admitted + 1
                   /\ queue' = Append(queue, admitted + 1)
                   /\ pc' = [pc EXCEPT ![Main] = "sr_room"]
              ELSE UNCHANGED <<admitted, queue, pc>>
    /\ UNCHANGED <<free_room, capacity, tmp, requester, outcome, analysis, log>>
    /\ UNCHANGED <<cur_buffer, handled, chain, call>>
    /\ UNCHANGED treeVars

\* the signal "changed" of the buffer: on_content_changed
ContentChanged ==
    /\ pc[Main] = "idle"
    /\ ticker.connected
    /\ ticker' = Changed(ask_request(ticker))
    /\ UNCHANGED <<cur_buffer, handled, chain, call>>
    /\ UNCHANGED schedVars
    /\ UNCHANGED treeVars

\* the signal "notify::buffer" of the view: on_buffer_changed
BufferChanged ==
    /\ pc[Main] = "idle"
    /\ ticker.connected
    /\ ticker' = Changed(ask_request(ticker))
    /\ UNCHANGED <<cur_buffer, handled, chain, call>>
    /\ UNCHANGED schedVars
    /\ UNCHANGED treeVars

\* the signal "updated" of the configuration, emitted after the value at
\* xPath was set: on_conf_updated
ConfUpdated(xPath) ==
    /\ pc[Main] = "idle"
    /\ ticker.connected
    /\ \E wait \in 1..MaxTicks :
          LET tk == IF xPath = "analyze-wait-ticks"
                    THEN [ticker EXCEPT !.wait_ticks = wait] ELSE ticker
          IN  ticker' = IF xPath = "analyze-options"
                        THEN Changed(on_conf_updated(tk, xPath))
                        ELSE on_conf_updated(tk, xPath)
    /\ UNCHANGED <<cur_buffer, handled, chain, call>>
    /\ UNCHANGED schedVars
    /\ UNCHANGED treeVars

\* the signal "cleared" of the configuration: on_conf_cleared
ConfCleared ==
    /\ pc[Main] = "idle"
    /\ ticker.connected
    /\ ticker' = Changed(ask_request(ticker))
    /\ UNCHANGED <<cur_buffer, handled, chain, call>>
    /\ UNCHANGED schedVars
    /\ UNCHANGED treeVars

\* disconnect(view)
Disconnect ==
    /\ pc[Main] = "idle"
    /\ ticker.connected
    /\ ticker' = disconnect(ticker)
    /\ cur_buffer' = {}
    /\ UNCHANGED <<handled, chain, call>>
    /\ UNCHANGED schedVars
    /\ UNCHANGED treeVars

\* __start_request: self.emit("analyze-started", requester), with the
\* handler of the auto-corrector while it is connected
TickerEmitStarted(t) ==
    /\ pc[t] = "sr_emit"
    /\ log' = Append(log, [type |-> "started", requester |-> requester[t],
                           result |-> {}])
    /\ pc' = [pc EXCEPT ![t] = "sr_start"]
    /\ ticker' = IF ticker.connected
                 THEN on_analyze_started(ticker, requester[t] \in ticker.mine)
                 ELSE ticker
    /\ UNCHANGED <<free_room, queue, capacity, tmp, requester, outcome, admitted>>
    /\ UNCHANGED analysis
    /\ UNCHANGED <<cur_buffer, handled, chain, call>>
    /\ UNCHANGED treeVars

\* add_request called by another requester; at most MaxOthers such calls
OtherRequest ==
    /\ admitted - Cardinality(ticker.mine) < MaxOthers
    /\ AddRequest

\* the analysis of a unit, here one that returns its list of errors
RunErrors(w) ==
    /\ Run(w)
    /\ outcome'[w] = "errors"
    /\ analysis'[w].config = {"config"}

InitTicker ==
    /\ Analyzer_init(DefaultParallelCount)
    /\ \E wait \in 1..MaxTicks : ticker = AutoCorrector_init(wait)
    /\ cur_buffer = {}
    /\ handled = NoHandling
    /\ NoChain
    /\ tree = EmptyTree("diff")
    /\ inserted = <<>>
    /\ query = {}
    /\ found = {}

NextTicker ==
    \/ TickerTick
    \/ ContentChanged
    \/ BufferChanged
    \/ \E xPath \in XPaths : ConfUpdated(xPath)
    \/ ConfCleared
    \/ Disconnect
    \/ OtherRequest
    \/ \E t \in Threads : CheckRoom(t)
    \/ \E t \in Threads : CheckEmpty(t)
    \/ \E t \in Threads : LoadRoom(t)
    \/ \E t \in Threads : StoreRoom(t)
    \/ \E t \in Threads : QueueGet(t)
    \/ \E t \in Threads : TickerEmitStarted(t)
    \/ \E t \in Threads : ThreadStart(t)
    \/ \E w \in Workers : RunErrors(w)
    \/ \E w \in Workers : TermLoad(w)
    \/ \E w \in Workers : TermStore(w)
    \/ \E w \in Workers : EmitFinished(w)

SpecTicker == InitTicker /\ [][NextTicker]_vars

---------------------------------------------------------------------------
(* Specification of a burst of requests: the analyzer built with the
   capacity MaxCapacity receives one request more than it ever has units
   for; that request is admitted when the others were, and only waits in
   the queue. The analyses are those which return their list of errors. *)

\* GrammalecteAnalyzer.add_request, the call after the MaxRequests calls of
\* AddRequest
AddExtraRequest ==
    /\ pc[Main] = "idle"
    /\ admitted = MaxRequests
    /\ admitted' = admitted + 1
    /\ queue' = Append(queue, admitted + 1)
    /\ pc' = [pc EXCEPT ![Main] = "sr_room"]
    /\ UNCHANGED <<free_room, capacity, tmp, requester, outcome, log>>
    /\ UNCHANGED analysis
    /\ UNCHANGED treeVars
    /\ UNCHANGED appVars

InitBurst ==
    /\ Analyzer_init(MaxCapacity)
    /\ NoCorrector
    /\ NoChain
    /\ tree = EmptyTree("diff")
    /\ inserted = <<>>
    /\ query = {}
    /\ found = {}

NextBurst ==
    \/ AddRequest
    \/ AddExtraRequest
    \/ \E t \in Threads : CheckRoom(t)
    \/ \E t \in Threads : CheckEmpty(t)
    \/ \E t \in Threads : LoadRoom(t)
    \/ \E t \in Threads : StoreRoom(t)
    \/ \E t \in Threads : QueueGet(t)
    \/ \E t \in Threads : EmitStarted(t)
    \/ \E t \in Threads : ThreadStart(t)
    \/ \E w \in Workers : RunErrors(w)
    \/ \E w \in Workers : TermLoad(w)
    \/ \E w \in Workers : TermStore(w)
    \/ \E w \in Workers : EmitFinished(w)

SpecBurst == InitBurst /\ [][NextBurst]_vars

---------------------------------------------------------------------------
(* Properties of the countdown of the auto-corrector *)

\* C37: the auto-corrector has at most one request admitted for which
\* analyze-started was not emitted yet: between its call of add_request and
\* the started notification for itself it calls add_request no further time.
C37_OneQueuedRequest ==
    Cardinality({a \in ticker.mine : Events("started", a) = {}}) <= 1

\* the second request of the auto-corrector waits in the queue behind the
\* request of another requester, its first request having been started, and
\* ticks went by since it was admitted
C37_Witness ==
    /\ Queued
    /\ Cardinality(ticker.mine) = 2
    /\ Len(queue) = 2
    /\ queue[1] \notin ticker.mine /\ queue[2] \in ticker.mine
    /\ ticker.requested
    /\ ticker.tick_count = -1

\* the auto-corrector calls add_request
OwnAdmission == ticker'.mine # ticker.mine

\* the tick that completes the ticks to count since the countdown was last
\* restarted
CountdownEnds == ticker.quiet < ticker.goal /\ ticker'.quiet = ticker.goal

\* C38: the auto-corrector calls add_request on the tick that completes
\* ANALYZE_WAIT_TICKS consecutive ticks since the last change of the
\* content, of the buffer or of the configuration (other than the three
\* items on_conf_updated ignores) made while no request of it was queued,
\* and on no other step; after such a change the countdown is at the
\* ANALYZE_WAIT_TICKS read then; after disconnect it admits no request.
C38_AdmitsWhenCountdownEnds ==
    [][/\ OwnAdmission => (CountdownEnds /\ ticker.connected)
       /\ (CountdownEnds /\ ticker.connected) => OwnAdmission
       /\ (ticker'.connected /\ ticker'.quiet = 0) =>
              ticker'.tick_count = ticker'.goal
       /\ ~ticker.connected => ~OwnAdmission]_vars

\* the auto-corrector admitted two requests, the second after a countdown
\* of MaxTicks ticks restarted by a change, was disconnected before that
\* request was started, and its timer has stopped
C38_Witness ==
    /\ Cardinality(ticker.mine) = 2
    /\ ticker.goal = MaxTicks /\ ticker.quiet = MaxTicks
    /\ Queued
    /\ ~ticker.connected
    /\ ~ticker.timer

---------------------------------------------------------------------------
(* plugin/config.py : DictConfig.  A value of the configuration (what
   json.loads gives) is kept as the function from the sequences of keys
   which lead into it to what is found there: "dict", "list" or a string.
   A key is a string or, written "#i", the integer i.  An Optional value is
   {} (None) or {v}.  An xPath is kept as the sequence of its names. *)

\* longest xPath, in names
MaxPath == 3
\* number of calls of set_value
MaxSets == 1
\* number of calls of get_value which follow one another
MaxGets == 1

\* the names of an xPath
Names == {"a", "b", "0"}

\* the strings stored, and their characters
Strs == {"a", "b", "ab"}
StrChars(s) == IF s = "ab" THEN <<"a", "b">> ELSE <<s>>

\* the integer keys 0, 1, 2
IntKeys == <<"#0", "#1", "#2">>
IsIntKey(k) == \E i \in DOMAIN IntKeys : IntKeys[i] = k
IndexOf(k) == CHOOSE i \in DOMAIN IntKeys : IntKeys[i] = k

\* int(name), {} when it raises ValueError
int(name) == IF name = "0" THEN {0} ELSE {}

\* the key a name stands for: `name = int(name)` unless ValueError
Key(name) ==
    IF int(name) = {} THEN name ELSE IntKeys[(CHOOSE i \in int(name) : TRUE) + 1]

Str(s) == (<<>> :> s)

Dict(f) ==
    [p \in {<<>>} \cup UNION {{<<k>> \o q : q \in DOMAIN f[k]} : k \in DOMAIN f} |->
        IF p = <<>> THEN "dict" ELSE f[Head(p)][Tail(p)]]

List(s) ==
    [p \in {<<>>} \cup UNION {{<<IntKeys[i]>> \o q : q \in DOMAIN s[i]} : i \in DOMAIN s} |->
        IF p = <<>> THEN "list" ELSE s[IndexOf(Head(p))][Tail(p)]]

Kind(v) == v[<<>>]
IsDict(v) == Kind(v) = "dict"
IsContainer(v) == Kind(v) \in {"dict", "list"}

\* the keys of a dict, the indexes of a list
Keys(v) == {p[1] : p \in {q \in DOMAIN v : Len(q) = 1}}

IsPrefix(p, r) == Len(p) <= Len(r) /\ SubSeq(r, 1, Len(p)) = p

\* the value found in v by the keys p
At(v, p) ==
    [q \in {SubSeq(r, Len(p) + 1, Len(r)) : r \in {x \in DOMAIN v : IsPrefix(p, x)}} |->
        v[p \o q]]

\* v where what the keys p lead to is replaced by sub, or removed
Graft(v, p, sub) ==
    [r \in {x \in DOMAIN v : ~IsPrefix(p, x)} \cup {p \o q : q \in DOMAIN sub} |->
        IF IsPrefix(p, r) THEN sub[SubSeq(r, Len(p) + 1, Len(r))] ELSE v[r]]

Remove(v, p) == [r \in {x \in DOMAIN v : ~IsPrefix(p, x)} |-> v[r]]

\* the items of a list
Items(v) == [i \in 1..Cardinality(Keys(v)) |-> At(v, <<IntKeys[i]>>)]

\* value[key], {} when it raises (KeyError, IndexError, TypeError); a string
\* gives its characters
Item(v, k) ==
    IF IsContainer(v)
    THEN IF k \in Keys(v) THEN {At(v, <<k>>)} ELSE {}
    ELSE IF IsIntKey(k) /\ IndexOf(k) <= Len(StrChars(Kind(v)))
    THEN {Str(StrChars(Kind(v))[IndexOf(k)])}
    ELSE {}

\* `key in value`, {} when it raises TypeError: the keys of a dict, the
\* items of a list, the substrings of a string
In(v, k) ==
    IF IsDict(v) THEN {k \in Keys(v)}
    ELSE IF Kind(v) = "list"
    THEN {~IsIntKey(k) /\ \E j \in Keys(v) : At(v, <<j>>) = Str(k)}
    ELSE IF IsIntKey(k) THEN {}
    ELSE {\E i \in DOMAIN StrChars(Kind(v)) : StrChars(Kind(v))[i] = k}

\* entry[key] = value for the entry found by the keys p, {} when it raises
SetItem(v, p, k, value) ==
    IF IsDict(At(v, p)) THEN {Graft(v, p \o <<k>>, value)}
    ELSE IF Kind(At(v, p)) = "list" /\ k \in Keys(At(v, p))
    THEN {Graft(v, p \o <<k>>, value)}
    ELSE {}

\* del entry[key] for the entry found by the keys p, {} when it raises
DelItem(v, p, k) ==
    IF k \notin Keys(At(v, p)) THEN {}
    ELSE IF IsDict(At(v, p)) THEN {Remove(v, p \o <<k>>)}
    ELSE LET items == Items(At(v, p))
             i     == IndexOf(k)
         IN {Graft(v, p, List(SubSeq(items, 1, i - 1) \o
                              SubSeq(items, i + 1, Len(items))))}

\* DictConfig.__find, from value on
RECURSIVE find(_, _)
find(value, xPath) ==
    IF xPath = <<>> THEN {value}
    ELSE LET item == Item(value, Key(Head(xPath)))
         IN IF item = {} THEN {}
            ELSE find(CHOOSE x \in item : TRUE, Tail(xPath))

\* DictConfig.__get_keys of the configuration c of the chain
get_keys(ch, c, xPath) ==
    UNION {LET value == find(ch[i].config, xPath)
           IN IF value # {} /\ \A v \in value : IsDict(v)
              THEN Keys(CHOOSE v \in value : TRUE) ELSE {}
           : i \in c..Len(ch)}

\* an exception which leaves get_value
TypeError == (<<>> :> "TypeError")

\* None as the value of a key
NoneValue == (<<>> :> "None")

Unwrap(o) == IF o = {} THEN NoneValue ELSE CHOOSE v \in o : TRUE

\* mutant of get_value: the parent is not asked
get_value_own(ch, c, xPath) == find(ch[c].config, xPath)

\* DictConfig.get_value of the configuration c of the chain: {} is None,
\* {TypeError} the exception of xPath + "/" + key for an integer key
RECURSIVE get_value(_, _, _)
get_value(ch, c, xPath) ==
    LET result == find(ch[c].config, xPath)
    IN IF result = {} /\ c < Len(ch) THEN get_value(ch, c + 1, xPath)
       ELSE IF result # {} /\ c < Len(ch) /\ \A v \in result : IsDict(v)
       THEN LET keys   == get_keys(ch, c, xPath)
                values == [key \in keys |-> get_value(ch, c, Append(xPath, key))]
            IN IF \E key \in keys : IsIntKey(key) THEN {TypeError}
               ELSE IF \E key \in keys : values[key] = {TypeError} THEN {TypeError}
               ELSE {Dict([key \in keys |-> Unwrap(values[key])])}
       ELSE result

\* mutant of __update: a missing entry of the path is not created
RECURSIVE update_no_create(_, _, _, _, _)
update_no_create(config, p, oldName, names, newValue) ==
    IF names = <<>>
    THEN IF oldName = {} THEN config
         ELSE LET k    == CHOOSE x \in oldName : TRUE
                  done == IF newValue = {} THEN DelItem(config, p, k)
                          ELSE SetItem(config, p, k, CHOOSE v \in newValue : TRUE)
              IN IF done = {} THEN config ELSE CHOOSE x \in done : TRUE
    ELSE IF oldName = {}
    THEN update_no_create(config, p, {Key(Head(names))}, Tail(names), newValue)
    ELSE LET k == CHOOSE x \in oldName : TRUE
         IN IF Item(At(config, p), k) = {} \/ ~IsContainer(At(config, p)) THEN config
            ELSE update_no_create(config, p \o <<k>>, {Key(Head(names))}, Tail(names),
                                  newValue)

\* DictConfig.__update from the entry found by the keys p on: the loop over
\* the names left, then the assignment or the deletion; an exception ends it
\* and leaves what was done before
RECURSIVE update(_, _, _, _, _)
update(config, p, oldName, names, newValue) ==
    IF names = <<>>
    THEN IF oldName = {} THEN config
         ELSE LET k    == CHOOSE x \in oldName : TRUE
                  done == IF newValue = {} THEN DelItem(config, p, k)
                          ELSE SetItem(config, p, k, CHOOSE v \in newValue : TRUE)
              IN IF done = {} THEN config ELSE CHOOSE x \in done : TRUE
    ELSE IF oldName = {}
    THEN update(config, p, {Key(Head(names))}, Tail(names), newValue)
    ELSE LET k       == CHOOSE x \in oldName : TRUE
             present == In(At(config, p), k)
             made    == IF present = {} THEN {}
                        ELSE IF TRUE \in present THEN {config}
                        ELSE SetItem(config, p, k, Dict(<<>>))
         IN IF made = {} THEN config
            ELSE LET created == CHOOSE x \in made : TRUE
                 IN IF Item(At(created, p), k) = {} THEN created
                    ELSE update(created, p \o <<k>>, {Key(Head(names))}, Tail(names),
                                newValue)

\* mutant of set_value: the level is not looked at
set_value_here(ch, c, xPath, newValue, level) ==
    IF find(ch[c].config, xPath) # newValue
    THEN [ch EXCEPT ![c] = [config |-> update(ch[c].config, <<>>, {}, xPath, newValue),
                            dirty |-> TRUE]]
    ELSE ch

\* DictConfig.set_value of the configuration c of the chain; the signal
\* updated changes no configuration
RECURSIVE set_value(_, _, _, _, _)
set_value(ch, c, xPath, newValue, level) ==
    IF level = 0
    THEN IF find(ch[c].config, xPath) # newValue
         THEN [ch EXCEPT ![c] = [config |-> update(ch[c].config, <<>>, {}, xPath, newValue),
                                 dirty |-> TRUE]]
         ELSE ch
    ELSE IF c < Len(ch) THEN set_value(ch, c + 1, xPath, newValue, level - 1)
    ELSE ch

---------------------------------------------------------------------------
(* Specification of the configuration: a chain of three DictConfig, the
   first the child of the second and the second of the third, as
   test_config.py builds two, or three without data; set_value and
   get_value are called *)

\* DictConfig(data): data is a dict
DictConfig_init(data) == [config |-> data, dirty |-> FALSE]

\* the data of setUp, with the names and the strings of the model, and a
\* grand-parent
TestChain ==
    <<DictConfig_init(Dict("a" :> Dict("b" :> List(<<Str("b"), Str("a")>>)) @@
                           "b" :> List(<<Dict("a" :> Str("ab") @@ "b" :> Str("b"))>>))),
      DictConfig_init(Dict("a" :> Dict("a" :> Str("a")) @@ "b" :> Str("a"))),
      DictConfig_init(Dict("a" :> Dict("a" :> Str("b")) @@
                           "b" :> List(<<List(<<Str("a")>>)>>) @@ "0" :> Str("b")))>>

\* DictConfig(None), three times
EmptyChain ==
    <<DictConfig_init(Dict(<<>>)), DictConfig_init(Dict(<<>>)),
      DictConfig_init(Dict(<<>>))>>

Paths == UNION {[1..n -> Names] : n \in 1..MaxPath}

\* the values given to set_value: None, a string, a dict, a list
NewValues ==
    {{}, {Str("a")}, {Dict("b" :> Str("b"))}, {List(<<Str("a"), Str("b")>>)}}

InitConfig ==
    /\ tree = Store_init
    /\ inserted = <<>>
    /\ query = {}
    /\ found = {}
    /\ Analyzer_init(DefaultParallelCount)
    /\ NoCorrector
    /\ chain \in {TestChain, EmptyChain}
    /\ call = NoCall

\* chain[c].set_value(xPath, newValue, level)
ConfigSet ==
    /\ call.count < MaxSets
    /\ \E c \in DOMAIN chain : \E xPath \in Paths : \E newValue \in NewValues :
       \E level \in 0..Len(chain) :
          /\ chain' = set_value(chain, c, xPath, newValue, level)
          /\ call' = [name |-> "set_value", self |-> c, path |-> xPath,
                      value |-> newValue, level |-> level, result |-> {},
                      count |-> call.count + 1, gets |-> 0]
    /\ UNCHANGED <<cur_buffer, handled, ticker>>
    /\ UNCHANGED treeVars
    /\ UNCHANGED schedVars

\* chain[c].get_value(xPath)
ConfigGet ==
    /\ call.gets < MaxGets
    /\ \E c \in DOMAIN chain : \E xPath \in Paths :
          call' = [name |-> "get_value", self |-> c, path |-> xPath, value |-> {},
                   level |-> 0, result |-> get_value(chain, c, xPath),
                   count |-> call.count, gets |-> call.gets + 1]
    /\ UNCHANGED chain
    /\ UNCHANGED <<cur_buffer, handled, ticker>>
    /\ UNCHANGED treeVars
    /\ UNCHANGED schedVars

NextConfig == ConfigSet \/ ConfigGet

SpecConfig == InitConfig /\ [][NextConfig]_vars

---------------------------------------------------------------------------
(* DictConfig.get_all_values.  A list is an object: what __find returns is
   the list stored in the configuration, and append changes it in place.
   The result of get_all_values is kept with its owner, the configuration
   of the chain which stores the object returned (0 when it is None). *)

\* number of calls of get_all_values
MaxAlls == 2

\* the keys that lead to what __find(xPath) returns
Loc(xPath) == [i \in DOMAIN xPath |-> Key(xPath[i])]

\* the order in which the keys of a dict of the model are iterated
NameOrder == <<"a", "b", "0">>

\* `for key in pResult`: the items of a list, the keys of a dict, the
\* characters of a string, as values
Iterated(v) ==
    IF Kind(v) = "list" THEN Items(v)
    ELSE IF IsDict(v)
    THEN LET RECURSIVE keysFrom(_)
             keysFrom(i) ==
                 IF i > Len(NameOrder) THEN <<>>
                 ELSE (IF NameOrder[i] \in Keys(v) THEN <<Str(NameOrder[i])>> ELSE <<>>)
                      \o keysFrom(i + 1)
         IN  keysFrom(1)
    ELSE [i \in DOMAIN StrChars(Kind(v)) |-> Str(StrChars(Kind(v))[i])]

\* the loop `if key not in result: result.append(key)` over keys, result
\* being a list given by its items
RECURSIVE append_missing(_, _)
append_missing(items, keys) ==
    IF keys = <<>> THEN items
    ELSE append_missing(
             IF \E i \in DOMAIN items : items[i] = Head(keys) THEN items
             ELSE Append(items, Head(keys)),
             Tail(keys))

\* DictConfig.get_all_values of the configuration c of the chain: the chain
\* after the call, the value returned ({} is None), its owner and the
\* exception which left the call
RECURSIVE get_all_values(_, _, _)
get_all_values(ch, c, xPath) ==
    LET result == find(ch[c].config, xPath)
    IN  IF c = Len(ch)
        THEN [chain |-> ch, result |-> result,
              owner |-> IF result = {} THEN 0 ELSE c, raised |-> "none"]
        ELSE LET p == get_all_values(ch, c + 1, xPath)
             IN  IF p.raised # "none" THEN p
                 ELSE IF result = {}
                 THEN IF p.result = {}
                      THEN [chain |-> p.chain, result |-> {}, owner |-> 0,
                            raised |-> "TypeError"]
                      ELSE p
                 ELSE IF \E v \in result : Kind(v) # "list"
                 THEN [chain |-> p.chain, result |-> {}, owner |-> 0,
                       raised |-> "AttributeError"]
                 ELSE IF p.result = {}
                 THEN [chain |-> p.chain, result |-> {}, owner |-> 0,
                       raised |-> "TypeError"]
                 ELSE LET own    == CHOOSE v \in result : TRUE
                          merged == List(append_missing(
                                        Items(own),
                                        Iterated(CHOOSE v \in p.result : TRUE)))
                      IN  [chain |-> [p.chain EXCEPT ![c].config =
                                         Graft(@, Loc(xPath), merged)],
                           result |-> {merged}, owner |-> c, raised |-> "none"]

---------------------------------------------------------------------------
(* Specification of the lists of the configuration: a chain of three
   DictConfig, each built with one of the data below (lists of rules, as
   IGNORED_RULES holds); get_all_values and get_value are called *)

ListData ==
    {Dict(<<>>),
     Dict("a" :> List(<<>>)),
     Dict("a" :> List(<<Str("a")>>)),
     Dict("a" :> List(<<Str("b"), Str("a")>>)),
     Dict("a" :> Str("ab")),
     Dict("a" :> Dict("b" :> List(<<Str("a")>>)))}

AllPaths == {<<"a">>, <<"a", "b">>}

InitAll ==
    /\ tree = Store_init
    /\ inserted = <<>>
    /\ query = {}
    /\ found = {}
    /\ Analyzer_init(DefaultParallelCount)
    /\ NoCorrector
    /\ \E child \in ListData, parent \in ListData, grand \in ListData :
          chain = <<DictConfig_init(child), DictConfig_init(parent),
                    DictConfig_init(grand)>>
    /\ call = NoCall

\* chain[c].get_all_values(xPath)
ConfigGetAll ==
    /\ call.count < MaxAlls
    /\ \E c \in DOMAIN chain : \E xPath \in AllPaths :
       \E r \in {get_all_values(chain, c, xPath)} :
          /\ chain' = r.chain
          /\ call' = [name |-> "get_all_values", self |-> c, path |-> xPath,
                      value |-> {}, level |-> 0, result |-> r.result,
                      count |-> call.count + 1, gets |-> 0,
                      owner |-> r.owner, raised |-> r.raised]
    /\ UNCHANGED <<cur_buffer, handled, ticker>>
    /\ UNCHANGED treeVars
    /\ UNCHANGED schedVars

NextAll == ConfigGetAll \/ ConfigGet

SpecAll == InitAll /\ [][NextAll]_vars

---------------------------------------------------------------------------
(* Properties of get_all_values *)

\* a call of get_all_values has just returned or raised
GetAllStep == call'.name = "get_all_values" /\ call'.count = call.count + 1

\* C39: get_all_values is a pure read: a call changes no configuration of
\* the chain (neither the list stored at the path nor the lists of the
\* ancestors), get_value returns after it what it returned before, for
\* every configuration and path, and the list returned is not a list stored
\* in a configuration.
C39_GetAllValuesPure ==
    [][GetAllStep =>
          /\ \A i \in DOMAIN chain : chain'[i].config = chain[i].config
          /\ \A c \in DOMAIN chain : \A xPath \in AllPaths :
                get_value(chain', c, xPath) = get_value(chain, c, xPath)
          /\ (\E v \in call'.result : Kind(v) = "list") => call'.owner = 0]_vars

---------------------------------------------------------------------------
(* Properties of the configuration *)

\* the configurations, from c up the chain, which store a value at xPath
Storing(c, xPath) == {i \in c..Len(chain) : find(chain[i].config, xPath) # {}}

Nearest(c, xPath) == CHOOSE i \in Storing(c, xPath) : \A j \in Storing(c, xPath) : i <= j

\* the value stored at xPath by the nearest configuration which stores one
NearestStored(c, xPath) ==
    IF Storing(c, xPath) = {} THEN {} ELSE find(chain[Nearest(c, xPath)].config, xPath)

\* C26 as stated: get_value(path) returns the value the configuration stores
\* at that path, and when it stores none the value stored by the nearest
\* ancestor which stores one, None when none does.
C26_GetValueNearest ==
    call.name = "get_value" => call.result = NearestStored(call.self, call.path)

\* the result is the dict merged over the chain from the configuration n:
\* its keys are those of every dict stored at xPath from n up, each with
\* what get_value gives for it; TypeError with an integer key
Merged(result, n, xPath) ==
    LET keys == get_keys(chain, n, xPath)
    IN IF \/ \E key \in keys : IsIntKey(key)
          \/ \E key \in keys : get_value(chain, n, Append(xPath, key)) = {TypeError}
       THEN result = {TypeError}
       ELSE /\ result # {}
            /\ \A r \in result :
                  /\ IsDict(r)
                  /\ Keys(r) = keys
                  /\ \A key \in keys :
                        At(r, <<key>>) = Unwrap(get_value(chain, n, Append(xPath, key)))

\* C26 amended: get_value(path) looks for the nearest configuration, from
\* the configuration itself up the chain, which stores a value at that path,
\* and returns None when none does; it returns that value when it is not a
\* dict or that configuration has no parent, and otherwise the dict merged
\* over the chain from that configuration.
C26_GetValueNearestMerged ==
    call.name = "get_value" =>
        IF Storing(call.self, call.path) = {} THEN call.result = {}
        ELSE LET n      == Nearest(call.self, call.path)
                 stored == find(chain[n].config, call.path)
             IN IF n = Len(chain) \/ \E v \in stored : ~IsDict(v)
                THEN call.result = stored
                ELSE Merged(call.result, n, call.path)

\* get_value was called on a configuration which stores a dict at the path
\* and whose ancestors store other keys there: the result has more keys
C26_Witness ==
    /\ call.name = "get_value"
    /\ call.self < Len(chain)
    /\ \E own \in find(chain[call.self].config, call.path) : \E r \in call.result :
          /\ IsDict(own) /\ IsDict(r)
          /\ Keys(own) # Keys(r)
          /\ Keys(own) # {}

\* the step is a call of set_value
SetStep == call'.count = call.count + 1

\* C27: set_value(path, v, level) changes only the configuration level
\* generations up the chain: every other configuration is unchanged, a
\* level-0 call leaves what the parent returns and a level-1 call leaves what
\* the child stores.
C27_SetValueFrame ==
    [][SetStep =>
          /\ \A i \in DOMAIN chain :
                i # call'.self + call'.level => chain'[i] = chain[i]
          /\ (call'.level = 0 /\ call'.self < Len(chain)) =>
                \A xPath \in Paths :
                    get_value(chain', call'.self + 1, xPath)
                        = get_value(chain, call'.self + 1, xPath)
          /\ call'.level = 1 =>
                \A xPath \in Paths :
                    find(chain'[call'.self].config, xPath)
                        = find(chain[call'.self].config, xPath)]_vars

\* a level-1 call on the child has given the parent a value at a path where
\* the child stores another one
C27_Witness ==
    /\ call.name = "set_value"
    /\ call.self = 1 /\ call.level = 1
    /\ call.value # {}
    /\ chain[2].dirty /\ ~chain[1].dirty
    /\ find(chain[2].config, call.path) = call.value
    /\ find(chain[1].config, call.path) \notin {{}, call.value}

Followable(config, xPath) ==
    \A n \in 1..Len(xPath) :
        \A v \in find(config, SubSeq(xPath, 1, n - 1)) :
            \/ IsDict(v)
            \/ Kind(v) = "list" /\ Key(xPath[n]) \in Keys(v)

\* no ancestor of c stores a dict at the path
MergeFree(c, xPath) ==
    \A i \in (c + 1)..Len(chain) : \A v \in find(chain[i].config, xPath) : ~IsDict(v)

\* the path ends with an index of a list the configuration stores, and no
\* list comes before on the path
EndsInList(config, xPath) ==
    /\ \E v \in find(config, SubSeq(xPath, 1, Len(xPath) - 1)) : Kind(v) = "list"
    /\ \A n \in 1..(Len(xPath) - 1) :
          \A v \in find(config, SubSeq(xPath, 1, n - 1)) : IsDict(v)

=============================================================================
